---- MODULE Spec2Model ----
(***************************************************************************)
(* Model of the OpenGL shader cache of video_core/renderer_opengl/         *)
(* gl_shader_manager.cpp: the single-level and double-level in-memory      *)
(* caches (ShaderCache, ShaderDoubleCache) and the start-up warm-up        *)
(* ShaderProgramManager::LoadDiskCache.                                    *)
(***************************************************************************)
EXTENDS Integers, Sequences, FiniteSets, TLC

(***************************************************************************)
(* Bounds of the model.                                                    *)
(***************************************************************************)
\* Largest number of Raw entries in the persisted transferable list.
MaxRaws == 2
\* Largest value std::thread::hardware_concurrency() reports.
MaxConcurrency == 3
\* Call counters saturate here (a correct cache never gets past 1).
CountCap == 2
\* Largest number of runtime calls (the Use calls, ApplyTo) made on a manager.
MaxUses == 4

(***************************************************************************)
(* Program constants (scaled down from the 4096-word buffers).             *)
(***************************************************************************)
MAX_PROGRAM_CODE_LENGTH == 2
MAX_SWIZZLE_DATA_LENGTH == 1

\* std::optional: <<>> is std::nullopt, <<x>> holds x.  A stage pointer of
\* shader_map is an optional too: <<>> is nullptr.
NoResult == <<>>
Some(x) == <<x>>
NullStage == <<>>

Bump(c) == IF c < CountCap THEN c + 1 ELSE c

Range(f) == {f[x] : x \in DOMAIN f}

\* std::unordered_map::emplace: an existing element is kept.
Emplace(map, key, value) == IF key \in DOMAIN map THEN map ELSE map @@ (key :> value)

\* std::unordered_map::insert_or_assign and operator[] assignment.
Assign(map, key, value) ==
    IF key \in DOMAIN map THEN [map EXCEPT ![key] = value] ELSE map @@ (key :> value)

(***************************************************************************)
(* Hardware state.  A register file is a short word sequence; a shader     *)
(* setup is the program-code buffer plus the swizzle buffer.  The first    *)
(* code word is the program proper (0: a program the decompiler rejects),  *)
(* the second is leftover code of a previous program.                      *)
(***************************************************************************)
RegsPool == {<<1>>, <<2>>}
SetupPool ==
    { [program_code |-> <<1, 0>>, swizzle_data |-> <<0>>],
      [program_code |-> <<1, 3>>, swizzle_data |-> <<0>>],
      [program_code |-> <<2, 0>>, swizzle_data |-> <<0>>],
      [program_code |-> <<0, 0>>, swizzle_data |-> <<0>>] }

\* PicaVSConfig{regs.vs, setup}: the key of the programmable vertex cache.
PicaVSConfig(regs, setup, sanitize) ==
    [vs |-> regs, program |-> setup.program_code, swizzle |-> setup.swizzle_data,
     sanitize_mul |-> sanitize]

\* PicaFSConfig::BuildFromRegs(regs, use_normal): the key of the fragment cache.
BuildFromRegs(regs, use_normal) == [fs |-> regs, use_normal |-> use_normal]

\* Generated source text: one shape for both stage kinds.
Source(kind, regs, prog, flag) == [kind |-> kind, regs |-> regs, prog |-> prog, flag |-> flag]

\* GenerateVertexShader: leftover code does not reach the generated source.
GenerateVertexShader(setup, config) ==
    IF setup.program_code[1] = 0 THEN NoResult
    ELSE Some([code |-> Source("vs", config.vs, setup.program_code[1], config.sanitize_mul)])

\* GenerateFragmentShader: always yields a program.
GenerateFragmentShader(config) ==
    [code |-> Source("fs", config.fs, 0, config.use_normal)]

\* The ShaderSetup a vertex key was built from.
SetupOf(config) == [program_code |-> config.program, swizzle_data |-> config.swizzle]

(***************************************************************************)
(* Platform handles.  glCreateShader/glCreateProgram return a name that    *)
(* is not in use; 0 is the "not built" sentinel.                           *)
(***************************************************************************)
NewHandle(live) == CHOOSE h \in 1..(Cardinality(live) + 1) :
                      /\ h \notin live
                      /\ \A g \in 1..(Cardinality(live) + 1) : g \notin live => h <= g

\* OGLShaderStage::Create: the handle of the built stage.
StageCreate(fresh, ok) == IF ok THEN fresh ELSE 0

\* The names the platform gives out during warm-up: the program created for
\* the dump of Raw entry i, and the stage built from the source of Raw entry
\* i.  Each is created once, so the names are distinct and not in use.
DumpHandle(i) == i
StageHandle(i, count) == count + i

(***************************************************************************)
(* ShaderCache<Key, CodeGenerator, ShaderType>                             *)
(***************************************************************************)
\* A Get that generates and compiles on every call, hit or miss.
ShaderCacheGet_Regenerate(shaders, config, generated, built) ==
    [shaders |-> Assign(shaders, config, built),
     handle |-> built, result |-> Some(generated), generated |-> TRUE, compiled |-> TRUE]

\* A Get that builds again a stage whose handle is the sentinel 0.
ShaderCacheGet_RetryFailed(shaders, config, generated, built) ==
    LET new_shader == config \notin DOMAIN shaders \/ shaders[config] = 0
        after == Assign(shaders, config, IF new_shader THEN built ELSE shaders[config])
    IN [shaders |-> after,
        handle |-> after[config],
        result |-> IF new_shader THEN Some(generated) ELSE NoResult,
        generated |-> new_shader,
        compiled |-> new_shader]

\* ShaderCache::Get.  generated: what CodeGenerator(config) yields;
\* built: the handle cached_shader.Create leaves in the stage.
ShaderCacheGet(shaders, config, generated, built) ==
    LET new_shader == config \notin DOMAIN shaders
        after == Emplace(shaders, config, built)
    IN [shaders |-> after,
        handle |-> after[config],
        result |-> IF new_shader THEN Some(generated) ELSE NoResult,
        generated |-> new_shader,
        compiled |-> new_shader]

\* An Inject that replaces the stage a key already has.
ShaderCacheInject_Replace(shaders, key, handle) == Assign(shaders, key, handle)

\* ShaderCache::Inject (both overloads).
ShaderCacheInject(shaders, key, handle) == Emplace(shaders, key, handle)

(***************************************************************************)
(* ShaderDoubleCache<Key, CodeGenerator, ShaderType>.  A value of          *)
(* shader_map is NullStage or Some(source text): the shader_cache element  *)
(* it points to (elements of an unordered_map are never relocated).        *)
(***************************************************************************)
\* What Get returns for a key that shader_map holds.
DoubleCacheHit(cache, key) ==
    IF cache.shader_map[key] = NullStage
    THEN [cache |-> cache, handle |-> 0, result |-> NoResult,
          generated |-> FALSE, compiled |-> FALSE]
    ELSE [cache |-> cache, handle |-> cache.shader_cache[cache.shader_map[key][1]],
          result |-> NoResult, generated |-> FALSE, compiled |-> FALSE]

\* A Get that builds a stage for every missed key, shared source or not.
ShaderDoubleCacheGet_PerKey(cache, key, program_opt, built) ==
    IF key \in DOMAIN cache.shader_map THEN DoubleCacheHit(cache, key)
    ELSE IF program_opt = NoResult
    THEN [cache |-> [cache EXCEPT !.shader_map = Assign(@, key, NullStage)],
          handle |-> 0, result |-> NoResult, generated |-> TRUE, compiled |-> FALSE]
    ELSE [cache |-> [shader_map |-> Assign(cache.shader_map, key, Some(program_opt[1].code)),
                     shader_cache |-> Assign(cache.shader_cache, program_opt[1].code, built)],
          handle |-> built, result |-> program_opt, generated |-> TRUE, compiled |-> TRUE]

\* A Get that does not remember "no shader needed".
ShaderDoubleCacheGet_NoMissCache(cache, key, program_opt, built) ==
    IF key \in DOMAIN cache.shader_map /\ cache.shader_map[key] # NullStage
    THEN DoubleCacheHit(cache, key)
    ELSE IF program_opt = NoResult
    THEN [cache |-> [cache EXCEPT !.shader_map = Assign(@, key, NullStage)],
          handle |-> 0, result |-> NoResult, generated |-> TRUE, compiled |-> FALSE]
    ELSE LET program == program_opt[1].code
             new_shader == program \notin DOMAIN cache.shader_cache
             stages == Emplace(cache.shader_cache, program, built)
         IN [cache |-> [shader_map |-> Assign(cache.shader_map, key, Some(program)),
                        shader_cache |-> stages],
             handle |-> stages[program],
             result |-> IF new_shader THEN Some([code |-> program]) ELSE NoResult,
             generated |-> TRUE, compiled |-> new_shader]

\* ShaderDoubleCache::Get.  program_opt: what CodeGenerator(setup, key) yields.
ShaderDoubleCacheGet(cache, key, program_opt, built) ==
    IF key \notin DOMAIN cache.shader_map
    THEN IF program_opt = NoResult
         THEN [cache |-> [cache EXCEPT !.shader_map = Assign(@, key, NullStage)],
               handle |-> 0, result |-> NoResult,
               generated |-> TRUE, compiled |-> FALSE]
         ELSE LET program == program_opt[1].code
                  new_shader == program \notin DOMAIN cache.shader_cache
                  stages == Emplace(cache.shader_cache, program, built)
              IN [cache |-> [shader_map |-> Assign(cache.shader_map, key, Some(program)),
                             shader_cache |-> stages],
                  handle |-> stages[program],
                  result |-> IF new_shader THEN Some([code |-> program]) ELSE NoResult,
                  generated |-> TRUE, compiled |-> new_shader]
    ELSE DoubleCacheHit(cache, key)

\* ShaderDoubleCache::Inject (both overloads): emplace on the source text,
\* insert_or_assign on the key.
ShaderDoubleCacheInject(cache, key, decomp, handle) ==
    [shader_map |-> Assign(cache.shader_map, key, Some(decomp)),
     shader_cache |-> Emplace(cache.shader_cache, decomp, handle)]

(***************************************************************************)
(* Content identifiers.  Common::ComputeHash64 and Common::HashCombine     *)
(* are kept to 16 bits.                                                    *)
(***************************************************************************)
HashModulus == 2^16

RECURSIVE ComputeHash64(_)
ComputeHash64(data) ==
    IF data = <<>> THEN 7
    ELSE (ComputeHash64(SubSeq(data, 1, Len(data) - 1)) * 33 + data[Len(data)] + 1) % HashModulus

HashCombine(seed, hash) == (seed * 64 + (seed \div 4) + hash + 40503) % HashModulus

\* GetUniqueIdentifier(regs, code)
GetUniqueIdentifier(regs, code) ==
    LET regs_uid == ComputeHash64(regs)
        hash == HashCombine(0, regs_uid)
    IN IF Len(code) > 0 THEN HashCombine(hash, ComputeHash64(code)) ELSE hash

\* BuildVSConfigFromRaw(raw): the key and the setup of a vertex Raw entry.
BuildVSConfigFromRaw(raw, sanitize) ==
    LET setup == [program_code |-> SubSeq(raw.program_code, 1, MAX_PROGRAM_CODE_LENGTH),
                  swizzle_data |-> SubSeq(raw.program_code, MAX_PROGRAM_CODE_LENGTH + 1,
                                          MAX_PROGRAM_CODE_LENGTH + MAX_SWIZZLE_DATA_LENGTH)]
    IN [conf |-> PicaVSConfig(raw.regs, setup, sanitize), setup |-> setup]

\* The use_normal argument BuildFromRegs takes when warm-up passes none.
DefaultUseNormal == FALSE

\* GetSupportedFormats(): the binary formats the platform accepts now.
SupportedFormats == {"BINFMT_NEW"}

\* A GeneratePrecompiledProgram that hands every dump to glProgramBinary.
GeneratePrecompiledProgram_NoFormatCheck(dump, supported_formats, link_ok, fresh) ==
    IF ~link_ok THEN [handle |-> 0, loaded |-> TRUE]
    ELSE [handle |-> fresh, loaded |-> TRUE]

\* GeneratePrecompiledProgram(dump, supported_formats, separable).  link_ok:
\* the GL_LINK_STATUS the platform reports after glProgramBinary; loaded:
\* whether glProgramBinary was called.
GeneratePrecompiledProgram(dump, supported_formats, link_ok, fresh) ==
    IF dump.binary_format \notin supported_formats THEN [handle |-> 0, loaded |-> FALSE]
    ELSE IF ~link_ok THEN [handle |-> 0, loaded |-> TRUE]
    ELSE [handle |-> fresh, loaded |-> TRUE]

(***************************************************************************)
(* The persisted store (ShaderDiskCache): the Raw list and the Decompiled  *)
(* and Dump maps, keyed by content identifier.                             *)
(***************************************************************************)
\* ShaderDiskCache::InvalidatePrecompiled
InvalidatePrecompiled(d) == [d EXCEPT !.decompiled = <<>>, !.dumps = <<>>]

\* ShaderDiskCache::InvalidateAll
InvalidateAll(d) == [transferable |-> <<>>, decompiled |-> <<>>, dumps |-> <<>>]

\* ShaderDiskCache::SaveDecompiled(unique_identifier, result, sanitize_mul)
SaveDecompiled(d, unique_identifier, result, sanitize_mul) ==
    [d EXCEPT !.decompiled =
        Emplace(@, unique_identifier, [code |-> result.code, sanitize_mul |-> sanitize_mul])]

\* ShaderDiskCache::SaveDump(unique_identifier, handle): the binary the
\* platform hands out carries a format it supports.
SaveDump(d, unique_identifier, handle) ==
    [d EXCEPT !.dumps = Emplace(@, unique_identifier, [binary_format |-> "BINFMT_NEW"])]

\* What a Raw entry of the store is made from.
RawPool ==
    { [program_type |-> "VS", regs |-> <<1>>, program_code |-> <<1, 0, 0>>],
      [program_type |-> "VS", regs |-> <<1>>, program_code |-> <<1, 3, 0>>],
      [program_type |-> "FS", regs |-> <<1>>, program_code |-> <<>>],
      [program_type |-> "GS", regs |-> <<2>>, program_code |-> <<>>] }

\* What the store holds for a Raw entry: "corrupt": the stored identifier no
\* longer matches the content; "decomp": the source only, as a runtime miss
\* leaves it; "dump": source and a binary; "old": source and a binary of a
\* format the platform dropped; "san": source and binary of the other
\* sanitization mode.
Statuses == {"corrupt", "decomp", "dump", "old", "san"}

\* The Raw record of a pool content.
MakeRaw(c, status) ==
    [unique_identifier |->
        IF status = "corrupt"
        THEN (GetUniqueIdentifier(c.regs, c.program_code) + 1) % HashModulus
        ELSE GetUniqueIdentifier(c.regs, c.program_code),
     program_type |-> c.program_type, regs |-> c.regs, program_code |-> c.program_code]

\* The source SaveDecompiled stored for a pool content under a mode.
StoredSource(c, sanitize) ==
    IF c.program_type = "VS"
    THEN LET b == BuildVSConfigFromRaw(c, sanitize)
         IN GenerateVertexShader(b.setup, b.conf)[1].code
    ELSE GenerateFragmentShader(BuildFromRegs(c.regs, DefaultUseNormal)).code

\* The stores: Raw lists of up to MaxRaws distinct contents, each with what
\* the store holds for it.
Stores ==
    UNION { { st \in [1..n -> RawPool \X Statuses] :
                \A i \in 1..n, j \in 1..n : i # j => st[i][1] # st[j][1] } : n \in 0..MaxRaws }

StoreRaws(st) == [i \in 1..Len(st) |-> MakeRaw(st[i][1], st[i][2])]

StoreEntry(st, uid) == CHOOSE i \in 1..Len(st) : MakeRaw(st[i][1], st[i][2]).unique_identifier = uid

StoreDecompiled(st, active) ==
    [uid \in {MakeRaw(st[i][1], st[i][2]).unique_identifier :
                 i \in {j \in 1..Len(st) : st[j][2] \in {"decomp", "dump", "old", "san"}}} |->
        LET e == st[StoreEntry(st, uid)]
            flag == IF e[2] = "san" THEN ~active ELSE active
        IN [code |-> StoredSource(e[1], flag), sanitize_mul |-> flag]]

StoreDumps(st) ==
    [uid \in {MakeRaw(st[i][1], st[i][2]).unique_identifier :
                 i \in {j \in 1..Len(st) : st[j][2] \in {"dump", "old", "san"}}} |->
        [binary_format |-> IF st[StoreEntry(st, uid)][2] = "old"
                           THEN "BINFMT_OLD" ELSE "BINFMT_NEW"]]

(***************************************************************************)
(* Bindings: the uniform-block and sampler/image bindings a program object *)
(* has received.                                                           *)
(***************************************************************************)
\* SetShaderUniformBlockBindings(handle) and, when samplers is set,
\* SetShaderSamplerBindings(handle): what the object has received so far.
NoBindings == [blocks |-> 0, samplers |-> 0]
Bindings(bound, handle) == IF handle \in DOMAIN bound THEN bound[handle] ELSE NoBindings
SetBindings(bound, handle, samplers) ==
    Assign(bound, handle,
           [blocks |-> Bump(Bindings(bound, handle).blocks),
            samplers |-> IF samplers THEN Bump(Bindings(bound, handle).samplers)
                         ELSE Bindings(bound, handle).samplers])

\* A Create that binds the samplers of every stage kind.
CreateBindings_AllKinds(bound, handle, separable, type) ==
    IF separable THEN SetBindings(bound, handle, TRUE) ELSE bound

\* OGLShaderStage::Create(source, type): a separable stage is a program
\* and gets its bindings; a non-separable stage is a shader object and gets
\* none.
CreateBindings(bound, handle, separable, type) ==
    IF separable THEN SetBindings(bound, handle, type = "fs") ELSE bound

\* OGLShaderStage::Inject(program): both sets, whatever the stage kind.
InjectBindings(bound, handle) == SetBindings(bound, handle, TRUE)

\* ~OGLProgram, ~OGLShaderStage: the objects are deleted.
Destroyed(bound, handles) == [h \in DOMAIN bound \ handles |-> bound[h]]

\* The rebuild partition of LoadDiskCache: worker i of num_workers gets
\* [start, end) of load_raws_size entries.
NumWorkers(hardware_concurrency) == IF hardware_concurrency > 1 THEN hardware_concurrency ELSE 1
BucketSize(load_raws_size, num_workers) == load_raws_size \div num_workers
WorkerStart(i, load_raws_size, num_workers) == BucketSize(load_raws_size, num_workers) * i
WorkerEnd_NoRemainder(i, load_raws_size, num_workers) ==
    WorkerStart(i, load_raws_size, num_workers) + BucketSize(load_raws_size, num_workers)
WorkerEnd(i, load_raws_size, num_workers) ==
    IF i + 1 = num_workers THEN load_raws_size
    ELSE WorkerStart(i, load_raws_size, num_workers) + BucketSize(load_raws_size, num_workers)

(***************************************************************************)
(* State.                                                                  *)
(***************************************************************************)
VARIABLES
    fragment_shaders,   \* Impl::fragment_shaders.shaders: PicaFSConfig -> stage handle
    vertex_shaders,     \* Impl::programmable_vertex_shaders: [shader_map, shader_cache]
    program_cache,      \* Impl::program_cache: identifier -> linked program handle
    ret,                \* what the last cache call returned
    calls,              \* generator and compiler invocations of the cache calls
    first,              \* what the first Get of each key returned
    env,                \* platform policy, cancellation flag, supported formats
    disk,               \* Impl::disk_cache: the persisted store
    ld,                 \* locals of LoadDiskCache and the position of its thread
    wk,                 \* the rebuild workers
    hist,               \* what the warm-up did: binary loads, compiles, injections
    fixed_geometry_shaders, \* Impl::fixed_geometry_shaders.shaders: key -> stage handle
    current,            \* Impl::current: the ShaderTuple of the selected stages
    rt                  \* what the runtime calls (the Use calls, ApplyTo) did

cacheVars == <<fragment_shaders, vertex_shaders, program_cache>>
cacheHist == <<ret, calls, first>>
loaderVars == <<env, disk, ld, wk, hist>>
runtimeVars == <<fixed_geometry_shaders, current, rt>>
vars == <<fragment_shaders, vertex_shaders, program_cache, ret, calls, first,
          env, disk, ld, wk, hist, fixed_geometry_shaders, current, rt>>

\* Keys the cache calls are made with.
FSKeys == {BuildFromRegs(r, TRUE) : r \in RegsPool} \cup {BuildFromRegs(<<1>>, FALSE)}
AllVSKeys == {PicaVSConfig(<<1>>, s, TRUE) : s \in SetupPool}
VSKeys == {k \in AllVSKeys : k.program[1] < 2}
VSSources == {GenerateVertexShader(SetupOf(k), k)[1].code :
                 k \in {c \in AllVSKeys : GenerateVertexShader(SetupOf(c), c) # NoResult}}

\* Handles of the stages and programs that are alive.
LiveHandles ==
    Range(fragment_shaders) \cup Range(vertex_shaders.shader_cache) \cup Range(program_cache)
        \cup {wk[w].handle : w \in DOMAIN wk} \cup Range(fixed_geometry_shaders)

EmptyMap == <<>>

\* ShaderTuple{}: no stage selected, all hashes 0.
NoTuple == [vs_hash |-> 0, gs_hash |-> 0, fs_hash |-> 0, vs |-> 0, gs |-> 0, fs |-> 0]

\* No runtime call was made.
NoRuntime ==
    [uses |-> 0,                  \* the runtime calls made so far
     last |-> [op |-> "none"],    \* the last runtime call and what it did
     links |-> <<>>,              \* stage-hash combination -> programs linked for it
     file_dumps |-> <<>>,         \* stage-hash combination -> SaveDumpToFile calls
     bound |-> <<>>,              \* program object -> the binding sets applied to it
     persisted |-> {},            \* the inputs whose stage earlier sessions persisted
     saving |-> {},               \* the inputs whose stage this session persisted
     draw |-> [shader_program |-> 0, pipeline |-> <<0, 0, 0>>]]

\* The caches and their observers after Impl::Impl.
NoCall == [op |-> "none", key |-> <<>>, handle |-> 0, result |-> NoResult]
NoCalls ==
    [fs_gets |-> [k \in FSKeys |-> 0], fs_gen |-> [k \in FSKeys |-> 0],
     fs_compile |-> [k \in FSKeys |-> 0], fs_seeded |-> {},
     vs_gets |-> [k \in VSKeys |-> 0], vs_gen |-> [k \in VSKeys |-> 0],
     vs_compile |-> [c \in VSSources |-> 0],
     vs_injected |-> {}, vs_seeded |-> {}, vs_null |-> {}]
NoFirst == [fs |-> [k \in FSKeys |-> <<>>], vs |-> [k \in VSKeys |-> <<>>]]
EmptyDoubleCache == [shader_map |-> EmptyMap, shader_cache |-> EmptyMap]

\* A manager on which no warm-up runs: the cache calls are made directly.
InitCacheOnly ==
    /\ fragment_shaders = EmptyMap
    /\ vertex_shaders = EmptyDoubleCache
    /\ program_cache = EmptyMap
    /\ ret = NoCall
    /\ calls = NoCalls
    /\ first = NoFirst
    /\ env = [separable |-> TRUE, strict_context_required |-> TRUE,
              hardware_concurrency |-> 1, stop_loading |-> FALSE]
    /\ disk = [transferable |-> <<>>, decompiled |-> <<>>, dumps |-> <<>>]
    /\ ld = [pc |-> "none"]
    /\ wk = <<>>
    /\ hist = <<>>
    /\ fixed_geometry_shaders = EmptyMap
    /\ current = NoTuple
    /\ rt = NoRuntime

(***************************************************************************)
(* Calls on the single-level cache (the fragment cache).                   *)
(***************************************************************************)
\* fragment_shaders.Get(config); ok: whether the platform builds the stage.
GetFS(config, ok) ==
    LET r == ShaderCacheGet(fragment_shaders, config, GenerateFragmentShader(config),
                            StageCreate(NewHandle(LiveHandles), ok))
    IN /\ fragment_shaders' = r.shaders
       /\ ret' = [op |-> "GetFS", key |-> config, handle |-> r.handle, result |-> r.result]
       /\ calls' = [calls EXCEPT
                      !.fs_gets[config] = Bump(@),
                      !.fs_gen[config] = IF r.generated THEN Bump(@) ELSE @,
                      !.fs_compile[config] = IF r.compiled THEN Bump(@) ELSE @]
       /\ first' = IF first.fs[config] = <<>>
                   THEN [first EXCEPT !.fs[config] =
                            <<[handle |-> r.handle, result |-> r.result]>>]
                   ELSE first
       /\ UNCHANGED <<vertex_shaders, program_cache, loaderVars, runtimeVars>>

\* fragment_shaders.Inject(key, program or stage); built: whether the
\* injected object has a handle (a stage may carry the sentinel 0).
InjectFS(key, built) ==
    /\ fragment_shaders' = ShaderCacheInject(fragment_shaders, key,
                                             StageCreate(NewHandle(LiveHandles), built))
    /\ ret' = [op |-> "InjectFS", key |-> key, handle |-> 0, result |-> NoResult]
    /\ calls' = [calls EXCEPT !.fs_seeded =
                    IF key \in DOMAIN fragment_shaders THEN @ ELSE @ \cup {key}]
    /\ UNCHANGED <<vertex_shaders, program_cache, first, loaderVars, runtimeVars>>

NextSingle ==
    \/ \E k \in FSKeys, ok \in BOOLEAN : GetFS(k, ok)
    \/ \E k \in FSKeys, built \in BOOLEAN : InjectFS(k, built)

SpecSingle == InitCacheOnly /\ [][NextSingle]_vars

(***************************************************************************)
(* Calls on the double-level cache (the programmable vertex cache).        *)
(***************************************************************************)
\* programmable_vertex_shaders.Get(key, setup)
GetVS(key, ok) ==
    LET r == ShaderDoubleCacheGet(vertex_shaders, key,
                                  GenerateVertexShader(SetupOf(key), key),
                                  StageCreate(NewHandle(LiveHandles), ok))
        src == GenerateVertexShader(SetupOf(key), key)
    IN /\ vertex_shaders' = r.cache
       /\ ret' = [op |-> "GetVS", key |-> key, handle |-> r.handle, result |-> r.result]
       /\ calls' = [calls EXCEPT
                      !.vs_gets[key] = Bump(@),
                      !.vs_gen[key] = IF r.generated THEN Bump(@) ELSE @,
                      !.vs_compile = IF r.compiled
                                     THEN [@ EXCEPT ![src[1].code] = Bump(@)] ELSE @,
                      !.vs_null = IF r.generated /\ src = NoResult THEN @ \cup {key} ELSE @]
       /\ first' = IF first.vs[key] = <<>>
                   THEN [first EXCEPT !.vs[key] =
                            <<[handle |-> r.handle, result |-> r.result]>>]
                   ELSE first
       /\ UNCHANGED <<fragment_shaders, program_cache, loaderVars, runtimeVars>>

\* programmable_vertex_shaders.Inject(key, decomp, program or stage)
InjectVS(key, decomp, built) ==
    /\ vertex_shaders' = ShaderDoubleCacheInject(vertex_shaders, key, decomp,
                                                 StageCreate(NewHandle(LiveHandles), built))
    /\ ret' = [op |-> "InjectVS", key |-> key, handle |-> 0, result |-> NoResult]
    /\ calls' = [calls EXCEPT
                   !.vs_injected = @ \cup {key},
                   !.vs_seeded = IF decomp \in DOMAIN vertex_shaders.shader_cache
                                 THEN @ ELSE @ \cup {decomp}]
    /\ UNCHANGED <<fragment_shaders, program_cache, first, loaderVars, runtimeVars>>

NextDouble ==
    \/ \E k \in VSKeys, ok \in BOOLEAN : GetVS(k, ok)
    \/ \E k \in VSKeys, d \in VSSources, built \in BOOLEAN : InjectVS(k, d, built)

SpecDouble == InitCacheOnly /\ [][NextDouble]_vars

(***************************************************************************)
(* Calls on both caches of one manager.                                    *)
(***************************************************************************)
\* One fragment key; the vertex keys for which a shader is generated (two
\* keys that share one source text).
CachesFSKeys == {BuildFromRegs(<<1>>, FALSE)}
CachesVSKeys == {k \in VSKeys : GenerateVertexShader(SetupOf(k), k) # NoResult}

NextCaches ==
    \/ \E k \in CachesFSKeys, ok \in BOOLEAN : GetFS(k, ok)
    \/ \E k \in CachesFSKeys, built \in BOOLEAN : InjectFS(k, built)
    \/ \E k \in CachesVSKeys, ok \in BOOLEAN : GetVS(k, ok)
    \/ \E k \in CachesVSKeys, d \in VSSources, built \in BOOLEAN : InjectVS(k, d, built)

SpecCaches == InitCacheOnly /\ [][NextCaches]_vars

(***************************************************************************)
(* Warm-up: ShaderProgramManager::LoadDiskCache.                           *)
(***************************************************************************)
\* The platform policies a manager is built with: non-separable, separable
\* with a strict context (the rebuild runs on the calling thread), separable
\* with one worker thread (hardware_concurrency() reports 0 when unknown).
Policies ==
    {[separable |-> FALSE, strict_context_required |-> FALSE, hardware_concurrency |-> 1],
     [separable |-> TRUE, strict_context_required |-> TRUE, hardware_concurrency |-> 1],
     [separable |-> TRUE, strict_context_required |-> FALSE, hardware_concurrency |-> 0]}

\* The separable policies with several worker threads.
ThreadedPolicies ==
    {[separable |-> TRUE, strict_context_required |-> FALSE, hardware_concurrency |-> c] :
        c \in 2..MaxConcurrency}

\* VideoCore::g_hw_shader_accurate_mul, the active sanitization mode.
ActiveSanitizeMul == TRUE

\* The locals of LoadDiskCache before it runs.
NoLocals ==
    [pc |-> "start", raws |-> <<>>, decompiled |-> <<>>, dumps |-> <<>>, todo |-> {},
     i |-> 1, compilation_failed |-> FALSE, precompiled_cache_altered |-> FALSE,
     load_raws_index |-> <<>>, load_all_raws |-> FALSE, load_raws_size |-> 0,
     built_shaders |-> 0,
     mutex |-> <<>>]              \* std::mutex mutex: <<>> free, <<w>> held by worker w

\* What a warm-up has done so far.
NoHistory ==
    [stopped_at_start |-> FALSE,  \* stop_loading was set when LoadDiskCache began
     examined |-> {},             \* Raw indices whose identifier was recomputed
     mismatch |-> 0,              \* the Raw index whose identifier did not match
     late |-> {},                 \* what was done after the mismatch was detected
     loaded |-> {},               \* dumps passed to glProgramBinary
     unsupported |-> {},          \* identifiers whose dump had an unsupported format
     rejected |-> {},             \* identifiers whose dump failed to link
     loads_after_fail |-> FALSE,  \* glProgramBinary was called after a dump failed
     fast |-> {},                 \* identifiers injected from their dump
     skipped |-> {},              \* identifiers skipped for their sanitization flag
     rebuilt |-> {},              \* Raw indices compiled from source
     rebuild_failed |-> FALSE,    \* the rebuild phase set compilation_failed
     injected |-> {},             \* Raw indices whose rebuilt stage was injected
     appended |-> {},             \* identifiers appended to the store
     invalidated |-> {},          \* "all", "precompiled": the invalidations made
     cleared |-> FALSE,           \* program_cache.clear() was called
     serialized |-> FALSE,        \* SaveVirtualPrecompiledFile was called
     started_after_stop |-> FALSE, \* an item was begun with stop_loading set
     in_flight_at_stop |-> {},    \* the workers inside an item when stop_loading was set
     ended_after_stop |-> {},     \* the workers that ended an item with stop_loading set
     callbacks |-> {},            \* the callback invocations: stage, thread, mutex held
     unlocked |-> {}]             \* the writes of shared state made without the mutex

\* A fresh manager over a persisted store, before LoadDiskCache is called.
Init ==
    /\ fragment_shaders = EmptyMap
    /\ vertex_shaders = EmptyDoubleCache
    /\ program_cache = EmptyMap
    /\ ret = NoCall
    /\ calls = NoCalls
    /\ first = NoFirst
    /\ \E policy \in Policies, stop \in BOOLEAN :
          env = [separable |-> policy.separable,
                 strict_context_required |-> policy.strict_context_required,
                 hardware_concurrency |-> policy.hardware_concurrency,
                 stop_loading |-> stop]
    /\ \E st \in Stores :
          disk = [transferable |-> StoreRaws(st),
                  decompiled |-> StoreDecompiled(st, ActiveSanitizeMul),
                  dumps |-> StoreDumps(st)]
    /\ ld = NoLocals
    /\ wk = <<>>
    /\ hist = NoHistory
    /\ fixed_geometry_shaders = EmptyMap
    /\ current = NoTuple
    /\ rt = NoRuntime

\* A read of the cancellation flag that never sees it set.
StopRequested_Never == FALSE

\* A read of stop_loading.
StopRequested == env.stop_loading

\* The owner of stop_loading sets it.
Cancel ==
    /\ ld.pc \notin {"done", "thrown", "terminated"}
    /\ ~env.stop_loading
    /\ env' = [env EXCEPT !.stop_loading = TRUE]
    /\ hist' = [hist EXCEPT !.in_flight_at_stop =
                   {w \in DOMAIN wk : wk[w].pc \in {"built", "injected", "save", "saved"}}]
    /\ UNCHANGED <<cacheVars, cacheHist, runtimeVars, disk, ld, wk>>

\* A spawned thread is running LoadRawSepareble.
WorkerRunning ==
    \E w \in DOMAIN wk : wk[w].thread = "worker" /\ wk[w].pc \notin {"finished", "joined"}

\* Another spawned thread than w is running LoadRawSepareble.
OtherRunning(w) ==
    \E v \in DOMAIN wk \ {w} : wk[v].thread = "worker" /\ wk[v].pc \notin {"finished", "joined"}

\* The history after the calling thread wrote shared state with no lock.
CallerWrites(h, what) ==
    [h EXCEPT !.unlocked = @ \cup {[what |-> x, thread |-> "caller", alone |-> ~WorkerRunning] :
                                      x \in what}]

\* The history after the thread of worker w wrote shared state; holder is
\* the mutex at the time of the write.
WorkerWrites(h, w, holder, what) ==
    IF holder = <<w>> THEN h
    ELSE [h EXCEPT !.unlocked = @ \cup {[what |-> x, thread |-> wk[w].thread,
                                          alone |-> ~OtherRunning(w)] : x \in what}]

\* The history after callback(stage, ...) was invoked on a thread.
Callback(h, stage, thread, locked) ==
    [h EXCEPT !.callbacks = @ \cup {[stage |-> stage, thread |-> thread, locked |-> locked]}]

\* The history after a thread began a work item.
Began(h) == [h EXCEPT !.started_after_stop = @ \/ env.stop_loading]

\* The history after worker w ended a work item: saved, or failed to compile.
Ended(h, w) == IF env.stop_loading THEN [h EXCEPT !.ended_after_stop = @ \cup {w}] ELSE h

\* Records in late what is done once a mismatch has been detected.
Late(h, what) == IF h.mismatch # 0 THEN [h EXCEPT !.late = @ \cup what] ELSE h

\* LoadDiskCache up to the dispatch on the policy: LoadTransferable,
\* LoadPrecompiled, the first read of stop_loading, GetSupportedFormats.
LoadBegin ==
    /\ ld.pc = "start"
    /\ hist' = IF disk.transferable = <<>> \/ StopRequested
               THEN [hist EXCEPT !.stopped_at_start = env.stop_loading]
               ELSE Callback([hist EXCEPT !.stopped_at_start = env.stop_loading],
                             "Decompile", "caller", FALSE)
    /\ ld' = IF disk.transferable = <<>> THEN [ld EXCEPT !.pc = "done"]
             ELSE IF StopRequested
             THEN [ld EXCEPT !.pc = "done", !.raws = disk.transferable,
                             !.decompiled = disk.decompiled, !.dumps = disk.dumps]
             ELSE [ld EXCEPT !.pc = IF env.separable THEN "precompiled_shader"
                                    ELSE "precompiled_program",
                             !.raws = disk.transferable,
                             !.decompiled = disk.decompiled, !.dumps = disk.dumps,
                             !.todo = DOMAIN disk.dumps]
    /\ UNCHANGED <<cacheVars, cacheHist, runtimeVars, env, disk, wk>>

\* LoadPrecompiledShader has an entry to process.
ShaderEntryReady ==
    /\ ld.pc = "precompiled_shader"
    /\ ld.i <= Len(ld.raws)
    /\ ~StopRequested
    /\ ~ld.compilation_failed

\* A failure test that only sees a dump the platform refused to link.
DumpFailed_RejectedOnly(shader) == shader.handle = 0 /\ shader.loaded

\* if (shader.handle == 0): the dump did not yield a program.
DumpFailed(shader) == shader.handle = 0

\* The entry has both its Dump and its Decompiled.
HasBoth(uid) == uid \in DOMAIN ld.dumps /\ uid \in DOMAIN ld.decompiled

\* LoadPrecompiledShader: the loop ends, or stops on the flags.
PrecompiledShaderExit ==
    /\ ld.pc = "precompiled_shader"
    /\ ld.i > Len(ld.raws) \/ StopRequested \/ ld.compilation_failed
    /\ ld' = [ld EXCEPT !.pc = "after_precompiled"]
    /\ UNCHANGED <<cacheVars, cacheHist, runtimeVars, env, disk, wk, hist>>

\* A mismatch handled like a rejected dump.
PrecompiledShaderMismatch_AsFailure ==
    /\ ShaderEntryReady
    /\ ld.raws[ld.i].unique_identifier #
          GetUniqueIdentifier(ld.raws[ld.i].regs, ld.raws[ld.i].program_code)
    /\ disk' = InvalidateAll(disk)
    /\ ld' = [ld EXCEPT !.pc = "after_precompiled", !.compilation_failed = TRUE]
    /\ hist' = [CallerWrites(Began(Late(hist, {"examined"})),
                             {"disk_cache", "compilation_failed"})
                   EXCEPT !.examined = @ \cup {ld.i},
                          !.mismatch = ld.i,
                          !.invalidated = @ \cup {"all"}]
    /\ UNCHANGED <<cacheVars, cacheHist, runtimeVars, env, wk>>

\* LoadPrecompiledShader: the recomputed identifier differs from the stored
\* one: InvalidateAll, and the lambda returns.
PrecompiledShaderMismatch ==
    /\ ShaderEntryReady
    /\ ld.raws[ld.i].unique_identifier #
          GetUniqueIdentifier(ld.raws[ld.i].regs, ld.raws[ld.i].program_code)
    /\ disk' = InvalidateAll(disk)
    /\ ld' = [ld EXCEPT !.pc = "after_precompiled"]
    /\ hist' = [CallerWrites(Began(Late(hist, {"examined"})), {"disk_cache"})
                   EXCEPT !.examined = @ \cup {ld.i},
                          !.mismatch = ld.i,
                          !.invalidated = @ \cup {"all"}]
    /\ UNCHANGED <<cacheVars, cacheHist, runtimeVars, env, wk>>

\* The entry under the loop index passed the integrity check.
ShaderEntryVerified ==
    /\ ShaderEntryReady
    /\ ld.raws[ld.i].unique_identifier =
          GetUniqueIdentifier(ld.raws[ld.i].regs, ld.raws[ld.i].program_code)

\* A sanitization mismatch handled like a failed dump.
PrecompiledShaderSkip_AsFailure ==
    /\ ShaderEntryVerified
    /\ HasBoth(ld.raws[ld.i].unique_identifier)
    /\ ld.raws[ld.i].program_type = "VS"
    /\ ld.decompiled[ld.raws[ld.i].unique_identifier].sanitize_mul # ActiveSanitizeMul
    /\ ld' = [ld EXCEPT !.compilation_failed = TRUE, !.pc = "after_precompiled"]
    /\ hist' = [Began(Late(hist, {"examined"})) EXCEPT
                   !.examined = @ \cup {ld.i},
                   !.skipped = @ \cup {ld.raws[ld.i].unique_identifier}]
    /\ UNCHANGED <<cacheVars, cacheHist, runtimeVars, env, disk, wk>>

\* LoadPrecompiledShader: a vertex entry whose Decompiled carries the other
\* sanitization mode: continue.
PrecompiledShaderSkip ==
    /\ ShaderEntryVerified
    /\ HasBoth(ld.raws[ld.i].unique_identifier)
    /\ ld.raws[ld.i].program_type = "VS"
    /\ ld.decompiled[ld.raws[ld.i].unique_identifier].sanitize_mul # ActiveSanitizeMul
    /\ ld' = [ld EXCEPT !.i = @ + 1]
    /\ hist' = [Began(Late(hist, {"examined"})) EXCEPT
                   !.examined = @ \cup {ld.i},
                   !.skipped = @ \cup {ld.raws[ld.i].unique_identifier}]
    /\ UNCHANGED <<cacheVars, cacheHist, runtimeVars, env, disk, wk>>

\* What the history records of one GeneratePrecompiledProgram call.
DumpLoadHistory(h, uid, dump, shader) ==
    [h EXCEPT !.loaded = IF shader.loaded
                         THEN @ \cup {[unique_identifier |-> uid,
                                       binary_format |-> dump.binary_format]}
                         ELSE @,
              !.loads_after_fail = @ \/ (shader.loaded /\ (h.unsupported \cup h.rejected) # {}),
              !.unsupported = IF shader.handle = 0 /\ ~shader.loaded THEN @ \cup {uid} ELSE @,
              !.rejected = IF shader.handle = 0 /\ shader.loaded THEN @ \cup {uid} ELSE @,
              !.fast = IF shader.handle # 0 THEN @ \cup {uid} ELSE @]

\* LoadPrecompiledShader: the entry has Dump and Decompiled: load the dump;
\* on success inject it under the key rebuilt from the Raw entry.
PrecompiledShaderLoad(link_ok) ==
    /\ ShaderEntryVerified
    /\ HasBoth(ld.raws[ld.i].unique_identifier)
    /\ ~(/\ ld.raws[ld.i].program_type = "VS"
         /\ ld.decompiled[ld.raws[ld.i].unique_identifier].sanitize_mul # ActiveSanitizeMul)
    /\ LET raw == ld.raws[ld.i]
           uid == raw.unique_identifier
           shader == GeneratePrecompiledProgram(ld.dumps[uid], SupportedFormats, link_ok,
                                                DumpHandle(ld.i))
           h == [Began(Late(hist, {"examined"})) EXCEPT !.examined = @ \cup {ld.i}]
       IN IF DumpFailed(shader)
          THEN /\ ld' = [ld EXCEPT !.compilation_failed = TRUE, !.pc = "after_precompiled"]
               /\ hist' = CallerWrites(DumpLoadHistory(h, uid, ld.dumps[uid], shader),
                                       {"compilation_failed"})
               /\ UNCHANGED <<cacheVars, rt>>
          ELSE IF raw.program_type = "VS"
          THEN /\ vertex_shaders' =
                     ShaderDoubleCacheInject(vertex_shaders,
                                             BuildVSConfigFromRaw(raw, ActiveSanitizeMul).conf,
                                             ld.decompiled[uid].code, shader.handle)
               /\ ld' = [ld EXCEPT !.i = @ + 1]
               /\ hist' = Callback(DumpLoadHistory(Late(h, {"injected"}), uid, ld.dumps[uid],
                                                   shader),
                                   "Decompile", "caller", FALSE)
               /\ rt' = [rt EXCEPT !.bound =
                            IF ld.decompiled[uid].code \in DOMAIN vertex_shaders.shader_cache
                            THEN Destroyed(InjectBindings(@, shader.handle), {shader.handle})
                            ELSE InjectBindings(@, shader.handle)]
               /\ UNCHANGED <<fragment_shaders, program_cache>>
          ELSE IF raw.program_type = "FS"
          THEN /\ fragment_shaders' =
                     ShaderCacheInject(fragment_shaders,
                                       BuildFromRegs(raw.regs, DefaultUseNormal), shader.handle)
               /\ ld' = [ld EXCEPT !.i = @ + 1]
               /\ hist' = Callback(DumpLoadHistory(Late(h, {"injected"}), uid, ld.dumps[uid],
                                                   shader),
                                   "Decompile", "caller", FALSE)
               /\ rt' = [rt EXCEPT !.bound =
                            IF BuildFromRegs(raw.regs, DefaultUseNormal)
                                  \in DOMAIN fragment_shaders
                            THEN Destroyed(InjectBindings(@, shader.handle), {shader.handle})
                            ELSE InjectBindings(@, shader.handle)]
               /\ UNCHANGED <<vertex_shaders, program_cache>>
          ELSE /\ ld' = [ld EXCEPT !.compilation_failed = TRUE, !.pc = "after_precompiled"]
               /\ hist' = [CallerWrites(DumpLoadHistory(h, uid, ld.dumps[uid], shader),
                                        {"compilation_failed"}) EXCEPT
                              !.fast = hist.fast]
               /\ UNCHANGED <<cacheVars, rt>>
    /\ UNCHANGED <<cacheHist, fixed_geometry_shaders, current, env, disk, wk>>

\* An entry without Dump or Decompiled that is passed over.
PrecompiledShaderQueue_Drop ==
    /\ ShaderEntryVerified
    /\ ~HasBoth(ld.raws[ld.i].unique_identifier)
    /\ ld' = [ld EXCEPT !.i = @ + 1]
    /\ hist' = Callback([Began(Late(hist, {"examined"})) EXCEPT !.examined = @ \cup {ld.i}],
                        "Decompile", "caller", FALSE)
    /\ UNCHANGED <<cacheVars, cacheHist, runtimeVars, env, disk, wk>>

\* LoadPrecompiledShader: Dump or Decompiled is missing: queue the index.
PrecompiledShaderQueue ==
    /\ ShaderEntryVerified
    /\ ~HasBoth(ld.raws[ld.i].unique_identifier)
    /\ ld' = [ld EXCEPT !.load_raws_index = Append(@, ld.i), !.i = @ + 1]
    /\ hist' = Callback([Began(Late(hist, {"examined"})) EXCEPT !.examined = @ \cup {ld.i}],
                        "Decompile", "caller", FALSE)
    /\ UNCHANGED <<cacheVars, cacheHist, runtimeVars, env, disk, wk>>

\* The Raw entry that carries an identifier.
RawIndexOf(uid) == CHOOSE i \in 1..Len(ld.raws) : ld.raws[i].unique_identifier = uid

\* LoadPrecompiledProgram: the loop over dump_map ends, or breaks on
\* stop_loading.
PrecompiledProgramExit ==
    /\ ld.pc = "precompiled_program"
    /\ ld.todo = {} \/ StopRequested
    /\ ld' = [ld EXCEPT !.pc = "after_precompiled"]
    /\ UNCHANGED <<cacheVars, cacheHist, runtimeVars, env, disk, wk, hist>>

\* A loop that goes on to the next dump after a failed one.
PrecompiledProgramEntry_Continue(uid, link_ok) ==
    /\ ld.pc = "precompiled_program"
    /\ ~StopRequested
    /\ uid \in ld.todo
    /\ IF ld.decompiled[uid].sanitize_mul # ActiveSanitizeMul
       THEN /\ ld' = [ld EXCEPT !.todo = @ \ {uid}]
            /\ hist' = [Began(hist) EXCEPT !.skipped = @ \cup {uid}]
            /\ UNCHANGED <<program_cache, rt>>
       ELSE LET shader == GeneratePrecompiledProgram(ld.dumps[uid], SupportedFormats, link_ok,
                                                     NewHandle(LiveHandles))
            IN /\ hist' = LET h == DumpLoadHistory(Began(hist), uid, ld.dumps[uid], shader)
                          IN IF ~DumpFailed(shader)
                             THEN Callback(CallerWrites(h, {"program_cache"}),
                                           "Decompile", "caller", FALSE)
                             ELSE CallerWrites(h, {"compilation_failed"})
               /\ IF ~DumpFailed(shader)
                  THEN /\ program_cache' = Emplace(program_cache, uid, shader.handle)
                       /\ rt' = [rt EXCEPT !.bound = InjectBindings(@, shader.handle)]
                       /\ ld' = [ld EXCEPT !.todo = @ \ {uid}]
                  ELSE /\ ld' = [ld EXCEPT !.compilation_failed = TRUE, !.todo = @ \ {uid}]
                       /\ UNCHANGED <<program_cache, rt>>
    /\ UNCHANGED <<fragment_shaders, vertex_shaders, cacheHist, fixed_geometry_shaders,
                   current, env, disk, wk>>

\* LoadPrecompiledProgram: one dump of dump_map (an unordered_map: any
\* order): skip it on the sanitization flag, else load it into
\* program_cache; a failed load sets compilation_failed and breaks.
PrecompiledProgramEntry(uid, link_ok) ==
    /\ ld.pc = "precompiled_program"
    /\ ~StopRequested
    /\ uid \in ld.todo
    /\ IF ld.decompiled[uid].sanitize_mul # ActiveSanitizeMul
       THEN /\ ld' = [ld EXCEPT !.todo = @ \ {uid}]
            /\ hist' = [Began(hist) EXCEPT !.skipped = @ \cup {uid}]
            /\ UNCHANGED <<program_cache, rt>>
       ELSE LET shader == GeneratePrecompiledProgram(ld.dumps[uid], SupportedFormats, link_ok,
                                                     NewHandle(LiveHandles))
            IN /\ hist' = LET h == DumpLoadHistory(Began(hist), uid, ld.dumps[uid], shader)
                          IN IF ~DumpFailed(shader)
                             THEN Callback(CallerWrites(h, {"program_cache"}),
                                           "Decompile", "caller", FALSE)
                             ELSE CallerWrites(h, {"compilation_failed"})
               /\ IF ~DumpFailed(shader)
                  THEN /\ program_cache' = Emplace(program_cache, uid, shader.handle)
                       /\ rt' = [rt EXCEPT !.bound = InjectBindings(@, shader.handle)]
                       /\ ld' = [ld EXCEPT !.todo = @ \ {uid}]
                  ELSE /\ ld' = [ld EXCEPT !.compilation_failed = TRUE,
                                           !.pc = "after_precompiled"]
                       /\ UNCHANGED <<program_cache, rt>>
    /\ UNCHANGED <<fragment_shaders, vertex_shaders, cacheHist, fixed_geometry_shaders,
                   current, env, disk, wk>>

\* An invalidation that keeps the slow-path queue as the rebuild list.
AfterPrecompiled_QueueOnly ==
    /\ ld.pc = "after_precompiled"
    /\ program_cache' = IF ld.compilation_failed THEN EmptyMap ELSE program_cache
    /\ disk' = IF ld.compilation_failed THEN InvalidatePrecompiled(disk) ELSE disk
    /\ hist' = LET h == IF ld.compilation_failed
                         THEN [CallerWrites(hist, {"program_cache", "disk_cache",
                                                   "precompiled_cache_altered"})
                                  EXCEPT !.invalidated = @ \cup {"precompiled"},
                                         !.cleared = TRUE]
                         ELSE hist
               IN IF env.separable
                  THEN Callback(CallerWrites(h, {"compilation_failed"}),
                                "Build", "caller", FALSE)
                  ELSE h
    /\ ld' = [ld EXCEPT
                !.dumps = IF ld.compilation_failed THEN <<>> ELSE @,
                !.precompiled_cache_altered = ld.compilation_failed,
                !.load_all_raws = FALSE,
                !.load_raws_size = IF env.separable THEN Len(ld.load_raws_index) ELSE 0,
                !.compilation_failed = IF env.separable THEN FALSE ELSE @,
                !.pc = IF env.separable THEN "rebuild" ELSE "done"]
    /\ rt' = [rt EXCEPT !.bound = IF ld.compilation_failed
                                   THEN Destroyed(@, Range(program_cache)) ELSE @]
    /\ UNCHANGED <<fragment_shaders, vertex_shaders, cacheHist, fixed_geometry_shaders,
                   current, env, wk>>

\* A dump-loading phase after which every platform goes on to the rebuild.
AfterPrecompiled_NoReturn ==
    /\ ld.pc = "after_precompiled"
    /\ program_cache' = IF ld.compilation_failed THEN EmptyMap ELSE program_cache
    /\ disk' = IF ld.compilation_failed THEN InvalidatePrecompiled(disk) ELSE disk
    /\ hist' = LET h == IF ld.compilation_failed
                         THEN [CallerWrites(hist, {"program_cache", "disk_cache",
                                                   "precompiled_cache_altered"})
                                  EXCEPT !.invalidated = @ \cup {"precompiled"},
                                         !.cleared = TRUE]
                         ELSE hist
               IN IF env.separable
                  THEN Callback(CallerWrites(h, {"compilation_failed"}),
                                "Build", "caller", FALSE)
                  ELSE h
    /\ ld' = [ld EXCEPT
                !.dumps = IF ld.compilation_failed THEN <<>> ELSE @,
                !.precompiled_cache_altered = ld.compilation_failed,
                !.load_all_raws = ld.compilation_failed,
                !.load_raws_size = IF ld.compilation_failed THEN Len(ld.raws)
                                   ELSE Len(ld.load_raws_index),
                !.compilation_failed = FALSE,
                !.pc = "rebuild"]
    /\ rt' = [rt EXCEPT !.bound = IF ld.compilation_failed
                                   THEN Destroyed(@, Range(program_cache)) ELSE @]
    /\ UNCHANGED <<fragment_shaders, vertex_shaders, cacheHist, fixed_geometry_shaders,
                   current, env, wk>>

\* LoadDiskCache after the dump-loading phase: on compilation_failed clear
\* program_cache, InvalidatePrecompiled and rebuild all Raw entries; return
\* on a non-separable platform; else size the rebuild and reset the flag.
AfterPrecompiled ==
    /\ ld.pc = "after_precompiled"
    /\ program_cache' = IF ld.compilation_failed THEN EmptyMap ELSE program_cache
    /\ disk' = IF ld.compilation_failed THEN InvalidatePrecompiled(disk) ELSE disk
    /\ hist' = LET h == IF ld.compilation_failed
                         THEN [CallerWrites(hist, {"program_cache", "disk_cache",
                                                   "precompiled_cache_altered"})
                                  EXCEPT !.invalidated = @ \cup {"precompiled"},
                                         !.cleared = TRUE]
                         ELSE hist
               IN IF env.separable
                  THEN Callback(CallerWrites(h, {"compilation_failed"}),
                                "Build", "caller", FALSE)
                  ELSE h
    /\ ld' = [ld EXCEPT
                !.dumps = IF ld.compilation_failed THEN <<>> ELSE @,
                !.precompiled_cache_altered = ld.compilation_failed,
                !.load_all_raws = ld.compilation_failed,
                !.load_raws_size = IF ~env.separable THEN 0
                                   ELSE IF ld.compilation_failed THEN Len(ld.raws)
                                   ELSE Len(ld.load_raws_index),
                !.compilation_failed = IF env.separable THEN FALSE ELSE @,
                !.pc = IF env.separable THEN "rebuild" ELSE "done"]
    /\ rt' = [rt EXCEPT !.bound = IF ld.compilation_failed
                                   THEN Destroyed(@, Range(program_cache)) ELSE @]
    /\ UNCHANGED <<fragment_shaders, vertex_shaders, cacheHist, fixed_geometry_shaders,
                   current, env, wk>>

\* Every thread is handed the context of the first.
ContextOf_Shared(i) == 0

\* contexts[i].get(), the context handed to thread i (the dummy context of
\* the calling thread is number 0).
ContextOf(i) == i

\* Every call of LoadRawSepareble runs on a spawned thread.
RebuildThread_AlwaysSpawn(strict_context_required) == "worker"

\* The thread that runs LoadRawSepareble: a std::thread, or the calling
\* thread when a strict context is required.
RebuildThread(strict_context_required) ==
    IF strict_context_required THEN "caller" ELSE "worker"

\* A lock that never blocks.
MutexFree_NoBlock == TRUE

\* std::scoped_lock lock(mutex) can take the mutex.
MutexFree == ld.mutex = <<>>

\* The number of rebuild workers: one on the calling thread when a strict
\* context is required.
RebuildWorkers ==
    IF env.strict_context_required THEN 1 ELSE NumWorkers(env.hardware_concurrency)

\* LoadDiskCache starts the rebuild: a thread per worker over its range, or
\* LoadRawSepareble(0, load_raws_size) on the calling thread.
StartRebuild ==
    /\ ld.pc = "rebuild"
    /\ wk' = [w \in 0..(RebuildWorkers - 1) |->
                [pc |-> "start", context |-> "free", context_id |-> ContextOf(w),
                 thread |-> RebuildThread(env.strict_context_required),
                 begin |-> WorkerStart(w, ld.load_raws_size, RebuildWorkers),
                 end |-> WorkerEnd(w, ld.load_raws_size, RebuildWorkers),
                 i |-> WorkerStart(w, ld.load_raws_size, RebuildWorkers),
                 handle |-> 0]]
    /\ ld' = [ld EXCEPT !.pc = "join"]
    /\ UNCHANGED <<cacheVars, cacheHist, runtimeVars, env, disk, hist>>

\* An exception left a worker thread: std::terminate has ended the process.
Terminated == ld.pc = "terminated"

\* LOG_ERROR("compilation from raw failed", raw.GetProgramCode().at(0),
\* .at(1)): std::vector::at throws std::out_of_range when the program code
\* has fewer than two words (a fragment entry has none).
LogThrows(raw) == Len(raw.program_code) < 2

\* The Raw index behind position i of the rebuild list.
RawsIndex(i) == IF ld.load_all_raws THEN i + 1 ELSE ld.load_raws_index[i + 1]

\* LoadRawSepareble: context->Acquire() when the call starts, then the loop
\* head and the build.  The range is done, or a flag is set: return, which
\* releases the context.  Else generate the source of the next entry and
\* build its stage (outside the mutex); an unknown stage kind sets
\* compilation_failed and returns.
WorkerBuild(w, ok) ==
    /\ w \in DOMAIN wk
    /\ ~Terminated
    /\ wk[w].pc \in {"start", "loop"}
    /\ IF wk[w].i >= wk[w].end \/ StopRequested \/ ld.compilation_failed
       THEN /\ wk' = [wk EXCEPT ![w].pc = "finished", ![w].context = "released"]
            /\ UNCHANGED <<ld, hist, rt>>
       ELSE IF ld.raws[RawsIndex(wk[w].i)].program_type \in {"VS", "FS"}
       THEN /\ wk' = [wk EXCEPT ![w].pc = "built", ![w].context = "held",
                                ![w].handle = StageCreate(
                                    StageHandle(RawsIndex(wk[w].i), Len(ld.raws)), ok)]
            /\ hist' = [Began(Late(hist, {"compiled"})) EXCEPT
                           !.rebuilt = @ \cup {RawsIndex(wk[w].i)}]
            /\ rt' = [rt EXCEPT !.bound =
                         CreateBindings(@, StageCreate(StageHandle(RawsIndex(wk[w].i),
                                                                   Len(ld.raws)), ok),
                                        env.separable,
                                        IF ld.raws[RawsIndex(wk[w].i)].program_type = "VS"
                                        THEN "vs" ELSE "fs")]
            /\ UNCHANGED ld
       ELSE /\ wk' = [wk EXCEPT ![w].pc = "finished", ![w].context = "released"]
            /\ ld' = [ld EXCEPT !.compilation_failed = TRUE]
            /\ hist' = [WorkerWrites(Began(hist), w, ld.mutex, {"compilation_failed"})
                           EXCEPT !.rebuild_failed = TRUE]
            /\ UNCHANGED rt
    /\ UNCHANGED <<cacheVars, cacheHist, fixed_geometry_shaders, current, env, disk>>

\* LoadRawSepareble: std::scoped_lock lock(mutex), then Inject of the stage
\* under the key rebuilt from the Raw entry.
WorkerInject(w) ==
    /\ w \in DOMAIN wk
    /\ ~Terminated
    /\ wk[w].pc = "built"
    /\ MutexFree
    /\ ld' = [ld EXCEPT !.mutex = <<w>>]
    /\ wk' = [wk EXCEPT ![w].pc = "injected"]
    /\ LET raw == ld.raws[RawsIndex(wk[w].i)]
           vs == BuildVSConfigFromRaw(raw, ActiveSanitizeMul)
           fs == BuildFromRegs(raw.regs, DefaultUseNormal)
       IN /\ IF raw.program_type = "VS"
             THEN /\ vertex_shaders' =
                        ShaderDoubleCacheInject(vertex_shaders, vs.conf,
                                                GenerateVertexShader(vs.setup, vs.conf)[1].code,
                                                wk[w].handle)
                  /\ rt' = [rt EXCEPT !.bound =
                               IF GenerateVertexShader(vs.setup, vs.conf)[1].code
                                     \in DOMAIN vertex_shaders.shader_cache
                               THEN Destroyed(@, {wk[w].handle}) ELSE @]
                  /\ UNCHANGED <<fragment_shaders, program_cache>>
             ELSE /\ fragment_shaders' = ShaderCacheInject(fragment_shaders, fs, wk[w].handle)
                  /\ rt' = [rt EXCEPT !.bound =
                               IF fs \in DOMAIN fragment_shaders
                               THEN Destroyed(@, {wk[w].handle}) ELSE @]
                  /\ UNCHANGED <<vertex_shaders, program_cache>>
          /\ hist' = [WorkerWrites(Late(hist, {"injected"}), w, ld'.mutex,
                                   {IF raw.program_type = "VS" THEN "vertex_shaders"
                                    ELSE "fragment_shaders"})
                         EXCEPT !.injected = @ \cup {RawsIndex(wk[w].i)}]
    /\ UNCHANGED <<cacheHist, fixed_geometry_shaders, current, env, disk>>

\* LoadRawSepareble: the block of the Inject ends and releases the mutex; a
\* stage with handle 0 sets compilation_failed and returns.
WorkerAfterInject(w) ==
    /\ w \in DOMAIN wk
    /\ wk[w].pc = "injected"
    /\ ~Terminated
    /\ IF wk[w].handle = 0 /\ LogThrows(ld.raws[RawsIndex(wk[w].i)])
       THEN /\ wk' = [wk EXCEPT ![w].pc = "threw",
                                ![w].context = IF wk[w].thread = "worker"
                                               THEN @ ELSE "released"]
            /\ ld' = [ld EXCEPT !.mutex = <<>>,
                                !.pc = IF wk[w].thread = "worker"
                                       THEN "terminated" ELSE "thrown"]
            /\ hist' = Ended(hist, w)
       ELSE IF wk[w].handle = 0
       THEN /\ wk' = [wk EXCEPT ![w].pc = "finished", ![w].context = "released"]
            /\ ld' = [ld EXCEPT !.mutex = <<>>, !.compilation_failed = TRUE]
            /\ hist' = [WorkerWrites(Ended(hist, w), w, ld'.mutex, {"compilation_failed"})
                           EXCEPT !.rebuild_failed = TRUE]
       ELSE /\ wk' = [wk EXCEPT ![w].pc = "save"]
            /\ ld' = [ld EXCEPT !.mutex = <<>>]
            /\ UNCHANGED hist
    /\ UNCHANGED <<cacheVars, cacheHist, runtimeVars, env, disk>>

\* LoadRawSepareble: std::scoped_lock lock(mutex), SaveDecompiled, SaveDump,
\* mark the precompiled cache altered, callback(Build, ++built_shaders, ...).
WorkerSave(w) ==
    /\ w \in DOMAIN wk
    /\ ~Terminated
    /\ wk[w].pc = "save"
    /\ MutexFree
    /\ ld' = [ld EXCEPT !.mutex = <<w>>,
                        !.precompiled_cache_altered = TRUE,
                        !.built_shaders = @ + 1]
    /\ wk' = [wk EXCEPT ![w].pc = "saved"]
    /\ LET raw == ld.raws[RawsIndex(wk[w].i)]
           vs == BuildVSConfigFromRaw(raw, ActiveSanitizeMul)
           result == IF raw.program_type = "VS"
                     THEN GenerateVertexShader(vs.setup, vs.conf)[1]
                     ELSE GenerateFragmentShader(BuildFromRegs(raw.regs, DefaultUseNormal))
           sanitize_mul == IF raw.program_type = "VS" THEN vs.conf.sanitize_mul ELSE FALSE
       IN /\ disk' = SaveDump(SaveDecompiled(disk, raw.unique_identifier, result,
                                             sanitize_mul),
                              raw.unique_identifier, wk[w].handle)
          /\ hist' = [Callback(WorkerWrites(Late(hist, {"appended"}), w, ld'.mutex,
                                            {"disk_cache", "precompiled_cache_altered",
                                             "built_shaders"}),
                               "Build", wk[w].thread, ld'.mutex = <<w>>)
                         EXCEPT !.appended = @ \cup {raw.unique_identifier}]
    /\ UNCHANGED <<cacheVars, cacheHist, runtimeVars, env>>

\* LoadRawSepareble: the loop body ends, which releases the mutex; ++i.
WorkerUnlock(w) ==
    /\ w \in DOMAIN wk
    /\ ~Terminated
    /\ wk[w].pc = "saved"
    /\ ld' = [ld EXCEPT !.mutex = <<>>]
    /\ wk' = [wk EXCEPT ![w].pc = "loop", ![w].i = @ + 1, ![w].handle = 0]
    /\ hist' = Ended(hist, w)
    /\ UNCHANGED <<cacheVars, cacheHist, runtimeVars, env, disk>>

\* A return that does not wait for the threads.
FinishRebuild_NoJoin ==
    /\ ld.pc = "join"
    /\ wk' = wk
    /\ disk' = IF ld.compilation_failed THEN InvalidateAll(disk) ELSE disk
    /\ hist' = [CallerWrites(IF ld.precompiled_cache_altered
                             THEN Late(hist, {"serialized"}) ELSE hist,
                             IF ld.compilation_failed \/ ld.precompiled_cache_altered
                             THEN {"disk_cache"} ELSE {})
                   EXCEPT !.invalidated = IF ld.compilation_failed THEN @ \cup {"all"} ELSE @,
                          !.serialized = ld.precompiled_cache_altered]
    /\ ld' = [ld EXCEPT !.pc = "done"]
    /\ UNCHANGED <<cacheVars, cacheHist, runtimeVars, env>>

\* LoadDiskCache after the rebuild: every thread is joined (or the call on
\* the calling thread has returned); on compilation_failed InvalidateAll; if
\* the precompiled cache was altered SaveVirtualPrecompiledFile; return.
FinishRebuild ==
    /\ ld.pc = "join"
    /\ \A w \in DOMAIN wk : wk[w].pc = "finished"
    /\ wk' = [w \in DOMAIN wk |-> [wk[w] EXCEPT !.pc = "joined", !.handle = 0]]
    /\ disk' = IF ld.compilation_failed THEN InvalidateAll(disk) ELSE disk
    /\ hist' = [CallerWrites(IF ld.precompiled_cache_altered
                             THEN Late(hist, {"serialized"}) ELSE hist,
                             IF ld.compilation_failed \/ ld.precompiled_cache_altered
                             THEN {"disk_cache"} ELSE {})
                   EXCEPT !.invalidated = IF ld.compilation_failed THEN @ \cup {"all"} ELSE @,
                          !.serialized = ld.precompiled_cache_altered]
    /\ ld' = [ld EXCEPT !.pc = "done"]
    /\ UNCHANGED <<cacheVars, cacheHist, runtimeVars, env>>

(***************************************************************************)
(* The rebuild phase with several worker threads, from the states in which *)
(* LoadDiskCache reaches it.                                               *)
(***************************************************************************)
\* Stores in which every entry has its source only: the dump-loading phase
\* queues every entry.
QueueStores ==
    {st \in Stores : Len(st) > 0 /\ \A i \in 1..Len(st) : st[i][2] = "decomp"}

\* Stores whose first entry has a dump of an unsupported format: the
\* dump-loading phase fails on it and every entry is to be rebuilt.
FailedStores ==
    {st \in Stores : /\ Len(st) > 0
                     /\ st[1][2] = "old"
                     /\ \A i \in 2..Len(st) : st[i][2] = "decomp"}

ThreadStores == QueueStores \cup FailedStores

\* The calling thread's writes and callbacks before the rebuild.
CallerWrote(what) == {[what |-> x, thread |-> "caller", alone |-> TRUE] : x \in what}
CallerCalled(stages) == {[stage |-> x, thread |-> "caller", locked |-> FALSE] : x \in stages}

\* The state in which LoadDiskCache reaches the rebuild over a store.
RebuildEntry(st) ==
    LET n == Len(st)
        failed == st \in FailedStores
        store == [transferable |-> StoreRaws(st),
                  decompiled |-> StoreDecompiled(st, ActiveSanitizeMul),
                  dumps |-> StoreDumps(st)]
    IN [disk |-> IF failed THEN InvalidatePrecompiled(store) ELSE store,
        ld |-> [NoLocals EXCEPT
                   !.pc = "rebuild",
                   !.raws = store.transferable,
                   !.decompiled = store.decompiled,
                   !.todo = DOMAIN store.dumps,
                   !.i = IF failed THEN 1 ELSE n + 1,
                   !.precompiled_cache_altered = failed,
                   !.load_raws_index = IF failed THEN <<>> ELSE [j \in 1..n |-> j],
                   !.load_all_raws = failed,
                   !.load_raws_size = n],
        hist |-> [NoHistory EXCEPT
                   !.examined = IF failed THEN {1} ELSE 1..n,
                   !.unsupported = IF failed THEN {store.transferable[1].unique_identifier}
                                   ELSE {},
                   !.invalidated = IF failed THEN {"precompiled"} ELSE {},
                   !.cleared = failed,
                   !.callbacks = CallerCalled({"Decompile", "Build"}),
                   !.unlocked = IF failed
                                THEN CallerWrote({"compilation_failed", "program_cache",
                                                  "disk_cache", "precompiled_cache_altered"})
                                ELSE CallerWrote({"compilation_failed"})]]

\* LoadDiskCache at the rebuild phase of a threaded platform.
InitThreads ==
    /\ fragment_shaders = EmptyMap
    /\ vertex_shaders = EmptyDoubleCache
    /\ program_cache = EmptyMap
    /\ ret = NoCall
    /\ calls = NoCalls
    /\ first = NoFirst
    /\ wk = <<>>
    /\ fixed_geometry_shaders = EmptyMap
    /\ current = NoTuple
    /\ rt = NoRuntime
    /\ \E policy \in ThreadedPolicies, st \in ThreadStores :
          /\ env = [separable |-> policy.separable,
                    strict_context_required |-> policy.strict_context_required,
                    hardware_concurrency |-> policy.hardware_concurrency,
                    stop_loading |-> FALSE]
          /\ disk = RebuildEntry(st).disk
          /\ ld = RebuildEntry(st).ld
          /\ hist = RebuildEntry(st).hist

NextThreads ==
    \/ Cancel
    \/ StartRebuild
    \/ \E w \in DOMAIN wk, ok \in BOOLEAN : WorkerBuild(w, ok)
    \/ \E w \in DOMAIN wk : WorkerInject(w)
    \/ \E w \in DOMAIN wk : WorkerAfterInject(w)
    \/ \E w \in DOMAIN wk : WorkerSave(w)
    \/ \E w \in DOMAIN wk : WorkerUnlock(w)
    \/ FinishRebuild

SpecThreads == InitThreads /\ [][NextThreads]_vars

\* A warm-up over a store of ThreadStores reaches the rebuild phase in the
\* state RebuildEntry gives, when it was not cancelled.
RebuildEntryAgrees ==
    \A st \in ThreadStores :
        (/\ ld.pc = "rebuild"
         /\ ~env.stop_loading
         /\ ld.raws = StoreRaws(st)
         /\ ld.decompiled = StoreDecompiled(st, ActiveSanitizeMul)
         /\ ld.todo = DOMAIN StoreDumps(st)
         /\ ld.load_all_raws = (st \in FailedStores)
         /\ hist.loaded = {} /\ hist.fast = {} /\ hist.skipped = {} /\ hist.mismatch = 0
         /\ hist.unsupported = RebuildEntry(st).hist.unsupported)
        => /\ ld = RebuildEntry(st).ld
           /\ hist = RebuildEntry(st).hist
           /\ disk = RebuildEntry(st).disk
           /\ fragment_shaders = EmptyMap
           /\ vertex_shaders = EmptyDoubleCache
           /\ program_cache = EmptyMap

Next ==
    \/ Cancel
    \/ LoadBegin
    \/ PrecompiledShaderExit
    \/ PrecompiledShaderMismatch
    \/ PrecompiledShaderSkip
    \/ \E link_ok \in BOOLEAN : PrecompiledShaderLoad(link_ok)
    \/ PrecompiledShaderQueue
    \/ PrecompiledProgramExit
    \/ \E uid \in ld.todo, link_ok \in BOOLEAN : PrecompiledProgramEntry(uid, link_ok)
    \/ AfterPrecompiled
    \/ StartRebuild
    \/ \E w \in DOMAIN wk, ok \in BOOLEAN : WorkerBuild(w, ok)
    \/ \E w \in DOMAIN wk : WorkerInject(w)
    \/ \E w \in DOMAIN wk : WorkerAfterInject(w)
    \/ \E w \in DOMAIN wk : WorkerSave(w)
    \/ \E w \in DOMAIN wk : WorkerUnlock(w)
    \/ FinishRebuild

Spec == Init /\ [][Next]_vars

\* The steps of the thread that called LoadDiskCache.
LoadStep ==
    \/ LoadBegin
    \/ PrecompiledShaderExit
    \/ PrecompiledShaderMismatch
    \/ PrecompiledShaderSkip
    \/ \E link_ok \in BOOLEAN : PrecompiledShaderLoad(link_ok)
    \/ PrecompiledShaderQueue
    \/ PrecompiledProgramExit
    \/ \E uid \in ld.todo, link_ok \in BOOLEAN : PrecompiledProgramEntry(uid, link_ok)
    \/ AfterPrecompiled
    \/ StartRebuild
    \/ FinishRebuild

\* The steps of one call of LoadRawSepareble.
WorkerStep(w) ==
    \/ \E ok \in BOOLEAN : WorkerBuild(w, ok)
    \/ WorkerInject(w)
    \/ WorkerAfterInject(w)
    \/ WorkerSave(w)
    \/ WorkerUnlock(w)

\* LoadDiskCache when every platform call and generator call returns: the
\* calling thread and every thread it spawned keep running; a stop request
\* may or may not come.
SpecLive ==
    /\ Init
    /\ [][Next]_vars
    /\ WF_vars(LoadStep)
    /\ \A w \in 0..(MaxConcurrency - 1) : WF_vars(WorkerStep(w))

(***************************************************************************)
(* Runtime: the stage selections and ApplyTo of the render thread.     *)
(***************************************************************************)
\* The handle of Impl::trivial_vertex_shader, built by the constructor.
TrivialVertexHandle == 100

\* PicaFixedGSConfig(regs): the key of the fixed geometry cache.
PicaFixedGSConfig(regs) == [gs |-> regs]

\* GenerateFixedGeometryShader: always yields a program.
GenerateFixedGeometryShader(config) == [code |-> Source("gs", config.gs, 0, FALSE)]

\* The Hash() of a key: a hash of the key's bytes.
Flag(b) == IF b THEN 1 ELSE 0
VSConfigHash(config) ==
    ComputeHash64(config.vs \o config.program \o config.swizzle \o <<Flag(config.sanitize_mul)>>)
FSConfigHash(config) == ComputeHash64(config.fs \o <<Flag(config.use_normal)>>)
GSConfigHash(config) == ComputeHash64(config.gs \o <<2>>)

\* ShaderTuple::GetConfigHash: a hash of the three stage hashes (not of the
\* handles).
GetConfigHash(tuple) == ComputeHash64(<<tuple.vs_hash, tuple.gs_hash, tuple.fs_hash>>)

\* The combination of stage hashes a tuple selects.
Combination(tuple) == <<tuple.vs_hash, tuple.gs_hash, tuple.fs_hash>>

\* One more in a saturating count of a map.
Count(map, key) == IF key \in DOMAIN map THEN map[key] ELSE 0
Counted(map, key) == Assign(map, key, Bump(Count(map, key)))

\* OGLProgram::Create(false, {vs, gs, fs}): the handle of the linked
\* program; the sentinel 0 when the platform does not link it.
ProgramCreate(fresh, ok) == IF ok THEN fresh ELSE 0

\* ShaderDiskCache::SaveRaw(raw): the Raw list is keyed by identifier.
SaveRaw(d, raw) ==
    IF \E i \in 1..Len(d.transferable) :
          d.transferable[i].unique_identifier = raw.unique_identifier
    THEN d
    ELSE [d EXCEPT !.transferable = Append(@, raw)]

\* ShaderDiskCache::SaveDumpToFile(unique_identifier, handle, sanitize_mul):
\* the dump, and a Decompiled without source that carries the flag.
SaveDumpToFile(d, unique_identifier, handle, sanitize_mul) ==
    SaveDump(SaveDecompiled(d, unique_identifier, [code |-> <<>>], sanitize_mul),
             unique_identifier, handle)

\* What the render thread asks for: register files, shader setups.
UseVSInputs == {<<r, s>> : r \in {<<1>>}, s \in {t \in SetupPool : t.program_code[1] < 2}}
UseFSInputs == {<<<<1>>, FALSE>>, <<<<1>>, TRUE>>, <<<<2>>, FALSE>>}
UseGSInputs == {<<1>>}

\* A manager on which no warm-up ran, on either platform, over an empty store.
InitRuntime ==
    /\ fragment_shaders = EmptyMap
    /\ vertex_shaders = EmptyDoubleCache
    /\ program_cache = EmptyMap
    /\ ret = NoCall
    /\ calls = NoCalls
    /\ first = NoFirst
    /\ \E separable \in BOOLEAN :
          env = [separable |-> separable, strict_context_required |-> TRUE,
                 hardware_concurrency |-> 1, stop_loading |-> FALSE]
    /\ disk = [transferable |-> <<>>, decompiled |-> <<>>, dumps |-> <<>>]
    /\ ld = [pc |-> "none"]
    /\ wk = <<>>
    /\ hist = <<>>
    /\ fixed_geometry_shaders = EmptyMap
    /\ current = NoTuple
    /\ rt = NoRuntime

\* The render thread can make a call.
CanUse == ld.pc \in {"none", "done"} /\ rt.uses < MaxUses

\* A vertex selection that saves before it looks at the handle.
VertexSaved_Always(handle, result) == result # NoResult

\* UseProgrammableVertexShader: the entry is saved when the handle is not
\* 0 (the call returns before) and the lookup reported new source.
VertexSaved(handle, result) == handle # 0 /\ result # NoResult

\* An identifier computed over the program code without the swizzle data.
VertexIdentifier_NoSwizzle(regs, setup) == GetUniqueIdentifier(regs, setup.program_code)

\* UseProgrammableVertexShader: the identifier of the Raw entry, over the
\* registers and the program code followed by the swizzle data.
VertexIdentifier(regs, setup) ==
    GetUniqueIdentifier(regs, setup.program_code \o setup.swizzle_data)

\* UseProgrammableVertexShader(regs, setup); ok: whether the platform
\* builds the stage.
UseProgrammableVertexShader(regs, setup, ok) ==
    /\ CanUse
    /\ LET config == PicaVSConfig(regs, setup, ActiveSanitizeMul)
           r == ShaderDoubleCacheGet(vertex_shaders, config,
                                     GenerateVertexShader(setup, config),
                                     StageCreate(NewHandle(LiveHandles), ok))
           unique_identifier == VertexIdentifier(regs, setup)
           raw == [unique_identifier |-> unique_identifier, program_type |-> "VS",
                   regs |-> regs,
                   program_code |-> setup.program_code \o setup.swizzle_data]
           saved == VertexSaved(r.handle, r.result)
       IN /\ vertex_shaders' = r.cache
          /\ current' = IF r.handle = 0 THEN current
                        ELSE [current EXCEPT !.vs = r.handle, !.vs_hash = VSConfigHash(config)]
          /\ disk' = IF saved
                     THEN SaveDecompiled(SaveRaw(disk, raw), unique_identifier, r.result[1],
                                         ActiveSanitizeMul)
                     ELSE disk
          /\ rt' = [rt EXCEPT
                      !.uses = @ + 1,
                      !.last = [op |-> "UseProgrammableVertexShader", key |-> config,
                                input |-> <<"VS", regs, setup>>, handle |-> r.handle,
                                hit |-> ~r.generated,
                                new_source |-> r.result # NoResult,
                                returned |-> r.handle # 0,
                                unique_identifier |-> unique_identifier, before |-> disk],
                      !.saving = IF saved /\ SaveRaw(disk, raw) # disk
                                 THEN @ \cup {<<"VS", regs, setup>>} ELSE @,
                      !.bound = IF r.compiled
                                THEN CreateBindings(@, r.handle, env.separable, "vs") ELSE @]
    /\ UNCHANGED <<fragment_shaders, program_cache, fixed_geometry_shaders, cacheHist,
                   env, ld, wk, hist>>

\* UseTrivialVertexShader
UseTrivialVertexShader ==
    /\ CanUse
    /\ current' = [current EXCEPT !.vs = TrivialVertexHandle, !.vs_hash = 0]
    /\ rt' = [rt EXCEPT !.uses = @ + 1, !.last = [op |-> "UseTrivialVertexShader"]]
    /\ UNCHANGED <<cacheVars, fixed_geometry_shaders, cacheHist, loaderVars>>

\* UseFixedGeometryShader(regs)
UseFixedGeometryShader(regs, ok) ==
    /\ CanUse
    /\ LET gs_config == PicaFixedGSConfig(regs)
           r == ShaderCacheGet(fixed_geometry_shaders, gs_config,
                               GenerateFixedGeometryShader(gs_config),
                               StageCreate(NewHandle(LiveHandles), ok))
       IN /\ fixed_geometry_shaders' = r.shaders
          /\ current' = [current EXCEPT !.gs = r.handle, !.gs_hash = GSConfigHash(gs_config)]
          /\ rt' = [rt EXCEPT
                      !.uses = @ + 1,
                      !.last = [op |-> "UseFixedGeometryShader", key |-> gs_config,
                                handle |-> r.handle, new_source |-> r.result # NoResult],
                      !.bound = IF r.compiled
                                THEN CreateBindings(@, r.handle, env.separable, "gs") ELSE @]
    /\ UNCHANGED <<cacheVars, cacheHist, loaderVars>>

\* UseTrivialGeometryShader
UseTrivialGeometryShader ==
    /\ CanUse
    /\ current' = [current EXCEPT !.gs = 0, !.gs_hash = 0]
    /\ rt' = [rt EXCEPT !.uses = @ + 1, !.last = [op |-> "UseTrivialGeometryShader"]]
    /\ UNCHANGED <<cacheVars, fixed_geometry_shaders, cacheHist, loaderVars>>

\* UseFragmentShader(regs, use_normal)
UseFragmentShader(regs, use_normal, ok) ==
    /\ CanUse
    /\ LET config == BuildFromRegs(regs, use_normal)
           r == ShaderCacheGet(fragment_shaders, config, GenerateFragmentShader(config),
                               StageCreate(NewHandle(LiveHandles), ok))
           unique_identifier == GetUniqueIdentifier(regs, <<>>)
           raw == [unique_identifier |-> unique_identifier, program_type |-> "FS",
                   regs |-> regs, program_code |-> <<>>]
       IN /\ fragment_shaders' = r.shaders
          /\ current' = [current EXCEPT !.fs = r.handle, !.fs_hash = FSConfigHash(config)]
          /\ disk' = IF r.result # NoResult
                     THEN SaveDecompiled(SaveRaw(disk, raw), unique_identifier, r.result[1],
                                         FALSE)
                     ELSE disk
          /\ rt' = [rt EXCEPT
                      !.uses = @ + 1,
                      !.last = [op |-> "UseFragmentShader", key |-> config,
                                input |-> <<"FS", regs, use_normal>>, handle |-> r.handle,
                                hit |-> ~r.generated,
                                new_source |-> r.result # NoResult,
                                returned |-> TRUE,
                                unique_identifier |-> unique_identifier, before |-> disk],
                      !.saving = IF r.result # NoResult /\ SaveRaw(disk, raw) # disk
                                 THEN @ \cup {<<"FS", regs, use_normal>>} ELSE @,
                      !.bound = IF r.compiled
                                THEN CreateBindings(@, r.handle, env.separable, "fs") ELSE @]
    /\ UNCHANGED <<vertex_shaders, program_cache, fixed_geometry_shaders, cacheHist,
                   env, ld, wk, hist>>

\* ApplyTo: program_cache[unique_identifier] default-constructs a missing
\* element; if (cached_program.handle == 0).
NeedsLink(cache, unique_identifier) ==
    unique_identifier \notin DOMAIN cache \/ cache[unique_identifier] = 0

\* ApplyTo(state); ok: whether the platform links the program.
ApplyTo(ok) ==
    /\ CanUse
    /\ IF env.separable
       THEN /\ rt' = [rt EXCEPT
                        !.uses = @ + 1,
                        !.last = [op |-> "ApplyTo", combination |-> Combination(current),
                                  linked |-> FALSE, handle |-> 0],
                        !.draw = [shader_program |-> 0,
                                  pipeline |-> <<current.vs, current.gs, current.fs>>]]
            /\ UNCHANGED <<program_cache, disk>>
       ELSE LET unique_identifier == GetConfigHash(current)
                link == NeedsLink(program_cache, unique_identifier)
                handle == IF link THEN ProgramCreate(NewHandle(LiveHandles), ok)
                          ELSE program_cache[unique_identifier]
            IN /\ program_cache' = Assign(program_cache, unique_identifier, handle)
               /\ disk' = IF link THEN SaveDumpToFile(disk, unique_identifier, handle, ActiveSanitizeMul)
                          ELSE disk
               /\ rt' = [rt EXCEPT
                           !.uses = @ + 1,
                           !.last = [op |-> "ApplyTo", combination |-> Combination(current),
                                     linked |-> link, handle |-> handle],
                           !.links = IF link THEN Counted(@, Combination(current)) ELSE @,
                           !.file_dumps = IF link THEN Counted(@, Combination(current))
                                          ELSE @,
                           !.bound = IF link THEN InjectBindings(@, handle) ELSE @,
                           !.draw = [shader_program |-> handle, pipeline |-> <<0, 0, 0>>]]
    /\ UNCHANGED <<fragment_shaders, vertex_shaders, fixed_geometry_shaders, current,
                   cacheHist, env, ld, wk, hist>>

NextRuntime ==
    \/ \E in \in UseVSInputs, ok \in BOOLEAN : UseProgrammableVertexShader(in[1], in[2], ok)
    \/ UseTrivialVertexShader
    \/ \E regs \in UseGSInputs, ok \in BOOLEAN : UseFixedGeometryShader(regs, ok)
    \/ UseTrivialGeometryShader
    \/ \E in \in UseFSInputs, ok \in BOOLEAN : UseFragmentShader(in[1], in[2], ok)
    \/ \E ok \in BOOLEAN : ApplyTo(ok)

SpecRuntime == InitRuntime /\ [][NextRuntime]_vars

(***************************************************************************)
(* Sessions: a manager is used, the process ends, and a fresh manager      *)
(* warms up from the store the earlier sessions left.                      *)
(***************************************************************************)
\* The identifier under which a runtime call persists its stage.
InputIdentifier(in) ==
    IF in[1] = "VS" THEN VertexIdentifier(in[2], in[3])
    ELSE GetUniqueIdentifier(in[2], <<>>)

\* The process ends after at least one runtime call; a fresh manager is
\* built over the same store: empty caches, no stage selected, every
\* platform object of the old process gone.
Restart ==
    /\ ld.pc \in {"none", "done"}
    /\ rt.last.op # "none"
    /\ fragment_shaders' = EmptyMap
    /\ vertex_shaders' = EmptyDoubleCache
    /\ program_cache' = EmptyMap
    /\ fixed_geometry_shaders' = EmptyMap
    /\ current' = NoTuple
    /\ ld' = NoLocals
    /\ wk' = <<>>
    /\ hist' = NoHistory
    /\ rt' = [NoRuntime EXCEPT
                !.uses = rt.uses,
                !.persisted = {in \in rt.persisted \cup rt.saving :
                                  \E i \in 1..Len(disk.transferable) :
                                      disk.transferable[i].unique_identifier
                                          = InputIdentifier(in)}]
    /\ UNCHANGED <<cacheHist, env, disk>>

\* The first session starts its warm-up over an empty store.
InitSession ==
    /\ fragment_shaders = EmptyMap
    /\ vertex_shaders = EmptyDoubleCache
    /\ program_cache = EmptyMap
    /\ ret = NoCall
    /\ calls = NoCalls
    /\ first = NoFirst
    /\ \E separable \in BOOLEAN :
          env = [separable |-> separable, strict_context_required |-> TRUE,
                 hardware_concurrency |-> 1, stop_loading |-> FALSE]
    /\ disk = [transferable |-> <<>>, decompiled |-> <<>>, dumps |-> <<>>]
    /\ ld = NoLocals
    /\ wk = <<>>
    /\ hist = NoHistory
    /\ fixed_geometry_shaders = EmptyMap
    /\ current = NoTuple
    /\ rt = NoRuntime

NextSession ==
    \/ \E in \in UseVSInputs, ok \in BOOLEAN : UseProgrammableVertexShader(in[1], in[2], ok)
    \/ \E in \in UseFSInputs, ok \in BOOLEAN : UseFragmentShader(in[1], in[2], ok)
    \/ \E ok \in BOOLEAN : ApplyTo(ok)
    \/ Restart
    \/ LoadBegin
    \/ PrecompiledShaderExit
    \/ \E link_ok \in BOOLEAN : PrecompiledShaderLoad(link_ok)
    \/ PrecompiledShaderQueue
    \/ PrecompiledProgramExit
    \/ \E uid \in ld.todo, link_ok \in BOOLEAN : PrecompiledProgramEntry(uid, link_ok)
    \/ AfterPrecompiled
    \/ StartRebuild
    \/ \E w \in DOMAIN wk, ok \in BOOLEAN : WorkerBuild(w, ok)
    \/ \E w \in DOMAIN wk : WorkerInject(w)
    \/ \E w \in DOMAIN wk : WorkerAfterInject(w)
    \/ \E w \in DOMAIN wk : WorkerSave(w)
    \/ \E w \in DOMAIN wk : WorkerUnlock(w)
    \/ FinishRebuild

SpecSession == InitSession /\ [][NextSession]_vars

(***************************************************************************)
(* Properties of the caches.                                               *)
(***************************************************************************)
VSGenerated(k) == GenerateVertexShader(SetupOf(k), k)

\* C1: on a single-level cache that was not pre-seeded for a key, the first
\* Get of the key returns the newly generated source (one generator call, one
\* compile), and every later Get of a value-equal key returns the handle the
\* first Get returned, with no source and with no further generator call or
\* compile.
C1_SingleGetTwice ==
    \A k \in FSKeys :
        /\ (calls.fs_gets[k] >= 1 /\ k \notin calls.fs_seeded) =>
              /\ first.fs[k][1].result = Some(GenerateFragmentShader(k))
              /\ calls.fs_gen[k] = 1
              /\ calls.fs_compile[k] = 1
        /\ (calls.fs_gets[k] >= 2 /\ ret.op = "GetFS" /\ ret.key = k) =>
              /\ ret.handle = first.fs[k][1].handle
              /\ ret.result = NoResult
              /\ calls.fs_gen[k] <= 1
              /\ calls.fs_compile[k] <= 1

\* A second Get of a key that the first Get built, on a cache not seeded for it.
C1_Witness ==
    \E k \in FSKeys :
        /\ calls.fs_gets[k] >= 2
        /\ k \notin calls.fs_seeded
        /\ ret.op = "GetFS" /\ ret.key = k
        /\ ret.handle # 0

\* C2: on the double-level cache, two distinct keys whose generated source
\* is the same text, both resolved by Get and neither re-pointed by Inject,
\* got the same handle from their first Gets and get it from every later Get;
\* the source was compiled at most once, and, when its stage was not injected,
\* exactly once, by the one first Get that reported new source.
C2_DoubleSharedSource ==
    \A a \in VSKeys, b \in VSKeys :
        (/\ a # b
         /\ VSGenerated(a) # NoResult
         /\ VSGenerated(a) = VSGenerated(b)
         /\ first.vs[a] # <<>> /\ first.vs[b] # <<>>
         /\ a \notin calls.vs_injected /\ b \notin calls.vs_injected) =>
            /\ first.vs[a][1].handle = first.vs[b][1].handle
            /\ DoubleCacheHit(vertex_shaders, a).handle = first.vs[a][1].handle
            /\ DoubleCacheHit(vertex_shaders, b).handle = first.vs[a][1].handle
            /\ calls.vs_compile[VSGenerated(a)[1].code] <= 1
            /\ VSGenerated(a)[1].code \notin calls.vs_seeded =>
                  /\ calls.vs_compile[VSGenerated(a)[1].code] = 1
                  /\ (first.vs[a][1].result = NoResult) # (first.vs[b][1].result = NoResult)

\* Two distinct keys with one source, both resolved by Get to a stage that
\* Get compiled.
C2_Witness ==
    \E a \in VSKeys, b \in VSKeys :
        /\ a # b
        /\ VSGenerated(a) # NoResult
        /\ VSGenerated(a) = VSGenerated(b)
        /\ first.vs[a] # <<>> /\ first.vs[b] # <<>>
        /\ calls.vs_injected = {}
        /\ calls.vs_seeded = {}
        /\ first.vs[a][1].result # NoResult
        /\ first.vs[a][1].handle # 0

\* C3 as stated: once the generator reported "no shader needed" for a key,
\* every later Get of the key, whatever cache calls came in between, returns
\* handle 0 with no source, and the generator is not invoked for it again.
C3_NullMissPermanent ==
    \A k \in calls.vs_null :
        /\ calls.vs_gen[k] = 1
        /\ DoubleCacheHit(vertex_shaders, k).handle = 0
        /\ (ret.op = "GetVS" /\ ret.key = k) => (ret.handle = 0 /\ ret.result = NoResult)

\* C3 amended: the generator is never invoked again for such a key; while
\* no Inject names the key, every later Get of it returns handle 0 with no
\* source; an Inject for the key replaces the cached miss, and Get then
\* returns the stage stored for the injected source text, still with no source.
C3_NullMissUntilInjected ==
    \A k \in calls.vs_null :
        /\ calls.vs_gen[k] = 1
        /\ k \in DOMAIN vertex_shaders.shader_map
        /\ k \notin calls.vs_injected =>
              /\ vertex_shaders.shader_map[k] = NullStage
              /\ (ret.op = "GetVS" /\ ret.key = k) => (ret.handle = 0 /\ ret.result = NoResult)
        /\ k \in calls.vs_injected =>
              /\ vertex_shaders.shader_map[k] # NullStage
              /\ (ret.op = "GetVS" /\ ret.key = k) =>
                    /\ ret.handle = vertex_shaders.shader_cache[vertex_shaders.shader_map[k][1]]
                    /\ ret.result = NoResult

\* A repeated Get of a key cached as a miss, after Injects for other keys.
C3_Witness ==
    \E k \in calls.vs_null :
        /\ calls.vs_gets[k] >= 2
        /\ k \notin calls.vs_injected
        /\ calls.vs_injected # {}
        /\ ret.op = "GetVS" /\ ret.key = k

(***************************************************************************)
(* Properties of the warm-up.                                              *)
(***************************************************************************)
\* The dump-loading phase is over.
PastDumpLoading == ld.pc \in {"rebuild", "join", "done", "thrown", "terminated"}

\* Raw entries whose stored identifier does not match their content.
CorruptedRaws ==
    {i \in 1..Len(ld.raws) :
        ld.raws[i].unique_identifier #
            GetUniqueIdentifier(ld.raws[i].regs, ld.raws[i].program_code)}

\* The warm-up ran to its end: not cancelled, no failure in the rebuild.
RanToEnd == ld.pc = "done" /\ ~env.stop_loading /\ ~hist.rebuild_failed

\* C4: once a Raw entry's recomputed identifier differs from the stored one,
\* warm-up aborts: in that warm-up no further Raw entry is examined, no stage
\* is compiled or injected, and nothing is appended or serialized to the store.
C4_MismatchAborts == hist.late = {}

\* C5 as stated: when exactly one Raw entry is corrupted and warm-up detects
\* it, the whole store is discarded and every Raw entry is rebuilt from source.
C5_RebuildsEveryEntry ==
    (hist.mismatch # 0 /\ Cardinality(CorruptedRaws) = 1 /\ RanToEnd) =>
        /\ "all" \in hist.invalidated
        /\ hist.rebuilt = 1..Len(ld.raws)

\* C5 amended: when the integrity check reaches a corrupted Raw entry the
\* whole store is invalidated, no later entry is examined, the rebuild list
\* stays the slow-path queue, and at most the entries queued before the
\* corrupted one are rebuilt: never the corrupted entry or one after it.
C5_MismatchRebuildsAtMostQueue ==
    hist.mismatch # 0 =>
        /\ "all" \in hist.invalidated
        /\ hist.examined = 1..hist.mismatch
        /\ ~ld.load_all_raws
        /\ hist.rebuilt \subseteq Range(ld.load_raws_index)
        /\ \A r \in hist.rebuilt : r < hist.mismatch

\* A finished warm-up that met its only corrupted entry after queueing and
\* then rebuilding an earlier one.
C5_Witness ==
    /\ hist.mismatch # 0
    /\ Cardinality(CorruptedRaws) = 1
    /\ RanToEnd
    /\ hist.rebuilt # {}

\* C6: a dump whose binary-format tag is not in the supported set is never
\* passed to glProgramBinary, under either platform policy.
C6_UnsupportedNeverLoaded ==
    /\ \A d \in hist.loaded : d.binary_format \in SupportedFormats
    /\ \A d \in hist.loaded : d.unique_identifier \notin hist.unsupported

\* A warm-up that met a dump of an unsupported format after loading another.
C6_Witness == hist.unsupported # {} /\ hist.loaded # {}

C8_RejectionIsSystemic ==
    hist.rejected # {} =>
        /\ ~PastDumpLoading => ld.pc = "after_precompiled" /\ ld.compilation_failed
        /\ PastDumpLoading =>
              /\ "precompiled" \in hist.invalidated
              /\ hist.cleared
              /\ program_cache = EmptyMap
              /\ ld.dumps = <<>>
              /\ ld.load_all_raws
              /\ env.separable => ld.load_raws_size = Len(ld.raws)
        /\ (RanToEnd /\ env.separable) => hist.rebuilt = 1..Len(ld.raws)

\* A threaded separable warm-up in which a dump was rejected after another
\* was loaded, and which rebuilt all entries, queued or not.
C8_Witness ==
    /\ hist.rejected # {}
    /\ hist.fast # {}
    /\ env.separable /\ ~env.strict_context_required
    /\ RanToEnd
    /\ Len(ld.load_raws_index) < Len(ld.raws)
    /\ hist.rebuilt = 1..Len(ld.raws)

\* C9: after the first dump fails to load, warm-up is marked failed and no
\* further dump is passed to glProgramBinary in that warm-up.
C9_NoLoadAfterFailure ==
    /\ ~hist.loads_after_fail
    /\ Cardinality(hist.unsupported \cup hist.rejected) <= 1
    /\ ((hist.unsupported \cup hist.rejected) # {} /\ ~PastDumpLoading) =>
          ld.pc = "after_precompiled" /\ ld.compilation_failed
    /\ ((hist.unsupported \cup hist.rejected) # {} /\ PastDumpLoading) =>
          ld.precompiled_cache_altered

\* The first dump failed to link while another dump was still to be tried.
C9_Witness ==
    /\ ld.pc = "after_precompiled"
    /\ hist.rejected # {}
    /\ Cardinality(hist.loaded) = 1
    /\ Cardinality(DOMAIN ld.dumps) >= 2

\* C10: if stop_loading is set when LoadDiskCache starts, warm-up compiles
\* nothing, loads no binary, injects nothing and leaves the vertex, fragment
\* and linked-program caches empty.
C10_CancelledAtStart ==
    hist.stopped_at_start =>
        /\ ld.pc = "done"
        /\ hist.rebuilt = {} /\ hist.loaded = {}
        /\ hist.fast = {} /\ hist.injected = {}
        /\ fragment_shaders = EmptyMap
        /\ vertex_shaders = EmptyDoubleCache
        /\ program_cache = EmptyMap

\* A warm-up over a store with dumps that was cancelled before it started.
C10_Witness ==
    /\ hist.stopped_at_start
    /\ ld.pc = "done"
    /\ Len(ld.raws) >= 2
    /\ DOMAIN ld.dumps # {}

(***************************************************************************)
(* Cancellation, the sanitization flag, the two paths of an entry.         *)
(***************************************************************************)
\* C11: once stop_loading is set no thread begins a new work item (a dump
\* load or a rebuild from source); a thread only ends the item it was inside
\* when the flag was set, and it does end it: the item is not abandoned.
C11_CooperativeCancel ==
    /\ ~hist.started_after_stop
    /\ hist.ended_after_stop \subseteq hist.in_flight_at_stop
    /\ ld.pc = "done" => hist.ended_after_stop = hist.in_flight_at_stop

\* A rebuild cancelled while its worker was inside the first of two items:
\* the worker ended that item and never began the second.
C11_Witness ==
    /\ ld.pc = "done"
    /\ env.stop_loading
    /\ hist.in_flight_at_stop # {}
    /\ hist.ended_after_stop = hist.in_flight_at_stop
    /\ ld.load_raws_size = 2
    /\ Cardinality(hist.rebuilt) = 1
    /\ hist.appended # {}

\* A dump failed in the dump-loading phase: unsupported, rejected, or loaded
\* for an entry of an unknown stage kind.
DumpPhaseFailed ==
    \/ (hist.unsupported \cup hist.rejected) # {}
    \/ \E d \in hist.loaded : d.unique_identifier \notin hist.fast

\* C12: a vertex Raw entry whose Decompiled carries the other sanitization
\* mode is skipped: its Dump is neither loaded nor injected, the skip does
\* not invalidate the store or set the failure flag, and the loop goes on to
\* the next Raw entry.
C12_SanitizeSkip ==
    /\ \A uid \in hist.skipped :
          /\ \A d \in hist.loaded : d.unique_identifier # uid
          /\ uid \notin hist.fast
          /\ env.separable => ld.raws[RawIndexOf(uid)].program_type = "VS"
    /\ (hist.skipped # {} /\ ~DumpPhaseFailed /\ hist.mismatch = 0 /\ ~hist.rebuild_failed) =>
          /\ hist.invalidated = {}
          /\ ~ld.compilation_failed
          /\ ~ld.load_all_raws
          /\ (env.separable /\ PastDumpLoading /\ hist.in_flight_at_stop = {}
                /\ (~env.stop_loading \/ ld.i > Len(ld.raws))) =>
                hist.examined = 1..Len(ld.raws)

\* A separable warm-up that skipped its first entry for its sanitization
\* flag and then loaded the second from its dump.
C12_Witness ==
    /\ env.separable
    /\ ld.pc = "done"
    /\ Len(ld.raws) = 2
    /\ ld.raws[1].unique_identifier \in hist.skipped
    /\ ld.raws[2].unique_identifier \in hist.fast
    /\ hist.invalidated = {}

\* The dump-loading phase of a separable warm-up examined every Raw entry
\* and met neither a mismatch nor a failed dump.
Phase4Complete ==
    /\ env.separable
    /\ PastDumpLoading
    /\ hist.examined = 1..Len(ld.raws)
    /\ hist.mismatch = 0
    /\ ~ld.load_all_raws

\* How many of the three outcomes of the dump-loading phase entry i has.
Outcomes(i) ==
    LET uid == ld.raws[i].unique_identifier
    IN (IF uid \in hist.fast THEN 1 ELSE 0)
       + (IF i \in Range(ld.load_raws_index) THEN 1 ELSE 0)
       + (IF uid \in hist.skipped THEN 1 ELSE 0)

\* C13 as stated: in a separable warm-up neither cancelled nor failed, every
\* verified Raw entry ends the dump-loading phase either injected from its
\* Dump or queued for the slow path, and never neither.
C13_LoadedOrQueued ==
    Phase4Complete =>
        \A i \in 1..Len(ld.raws) :
            (ld.raws[i].unique_identifier \in hist.fast) # (i \in Range(ld.load_raws_index))

\* C13 amended: every verified Raw entry ends the dump-loading phase in
\* exactly one of three states: injected from its Dump (both Dump and
\* Decompiled exist and, for a vertex entry, the flag matches), queued (Dump
\* or Decompiled is missing), or skipped (a vertex entry with both whose
\* flag differs), which is neither loaded nor queued.
C13_LoadedQueuedOrSkipped ==
    Phase4Complete =>
        \A i \in 1..Len(ld.raws) :
            LET uid == ld.raws[i].unique_identifier
                flag_differs == ld.decompiled[uid].sanitize_mul # ActiveSanitizeMul
            IN /\ Outcomes(i) = 1
               /\ uid \in hist.fast =>
                     HasBoth(uid) /\ (ld.raws[i].program_type = "VS" => ~flag_differs)
               /\ i \in Range(ld.load_raws_index) => ~HasBoth(uid)
               /\ uid \in hist.skipped =>
                     HasBoth(uid) /\ ld.raws[i].program_type = "VS" /\ flag_differs

\* A dump-loading phase that skipped one entry and queued the other.
C13_Witness ==
    /\ Phase4Complete
    /\ hist.skipped # {}
    /\ ld.load_raws_index # <<>>

\* C14: on a non-separable platform warm-up never rebuilds a Raw entry from
\* source: no worker runs, nothing is compiled, injected or appended,
\* whether or not a dump failed.
C14_NonSeparableNoRebuild ==
    ~env.separable =>
        /\ wk = <<>>
        /\ ld.pc \in {"start", "precompiled_program", "after_precompiled", "done"}
        /\ hist.rebuilt = {} /\ hist.injected = {} /\ hist.appended = {}
        /\ fragment_shaders = EmptyMap
        /\ vertex_shaders = EmptyDoubleCache

\* A non-separable warm-up that returned after a dump was rejected.
C14_Witness ==
    /\ ~env.separable
    /\ ld.pc = "done"
    /\ hist.rejected # {}
    /\ ld.precompiled_cache_altered
    /\ Len(ld.raws) = 2

\* C15: when warm-up has changed the precompiled store (dumps discarded
\* after a failure, or new pairs appended) it has serialized it when it
\* returns, on either platform; when it has not, nothing is serialized.
C15_SerializedIffChanged ==
    ld.pc = "done" =>
        (hist.serialized <=> ("precompiled" \in hist.invalidated \/ hist.appended # {}))

(***************************************************************************)
(* Threads: the callback, the mutex, the contexts, the join, the ranges.   *)
(***************************************************************************)
\* C16 as stated: the progress callback is invoked only on the thread that
\* called LoadDiskCache, in every phase.
C16_CallbackOnCallerOnly == \A c \in hist.callbacks : c.thread = "caller"

\* C16 amended: the Decompile callbacks and the first Build callback are
\* invoked on the calling thread; the Build callback of a rebuilt entry is
\* invoked by the thread that rebuilt it, a worker thread unless a strict
\* context is required, and always while that thread holds the mutex.
C16_CallbackOnRebuildingThread ==
    \A c \in hist.callbacks :
        /\ c.stage = "Decompile" => c.thread = "caller" /\ ~c.locked
        /\ c.thread = "worker" =>
              c.stage = "Build" /\ c.locked /\ env.separable /\ ~env.strict_context_required
        /\ (c.stage = "Build" /\ c.locked) => hist.appended # {}
        /\ (~env.separable \/ env.strict_context_required) => c.thread = "caller"

\* A rebuild whose worker thread invoked the callback.
C16_Witness ==
    \E c \in hist.callbacks : c.thread = "worker" /\ c.stage = "Build" /\ c.locked

\* C17 as stated: every write of shared state by any thread is made while
\* the thread holds the mutex, the failure flag included; read with the
\* allowance that the calling thread needs no lock while it is the only
\* thread.
C17_EveryWriteLocked == \A u \in hist.unlocked : u.thread = "caller" /\ u.alone

\* C17 amended: the mutex is held by at most one thread, which is inside
\* its Inject or its Save section; worker threads write the cache maps, the
\* store, built_shaders and precompiled_cache_altered only while they hold
\* it; the failure flag (an atomic) is written without it, by several
\* threads at a time; the calling thread writes shared state without it
\* only while no worker thread runs.
C17_WritesLockedButFlag ==
    /\ \A w \in DOMAIN wk : (wk[w].pc \in {"injected", "saved"}) <=> (ld.mutex = <<w>>)
    /\ \A w \in DOMAIN wk, v \in DOMAIN wk :
          (wk[w].pc \in {"injected", "saved"} /\ wk[v].pc \in {"injected", "saved"}) => w = v
    /\ \A u \in hist.unlocked :
          \/ u.what = "compilation_failed"
          \/ u.thread = "caller" /\ u.alone

\* A worker set the failure flag without the mutex while another worker was
\* running.
C17_Witness ==
    \E u \in hist.unlocked :
        u.thread = "worker" /\ u.what = "compilation_failed" /\ ~u.alone

\* C18: each worker has a rendering context of its own, acquires it when it
\* starts, holds it while it works through its range and has released it
\* when it finishes; no context goes to two workers.
C18_ContextPerWorker ==
    /\ \A w \in DOMAIN wk, v \in DOMAIN wk :
          w # v => wk[w].context_id # wk[v].context_id
    /\ \A w \in DOMAIN wk :
          /\ wk[w].pc = "start" => wk[w].context = "free"
          /\ wk[w].pc \in {"loop", "built", "injected", "save", "saved"} =>
                wk[w].context = "held"
          /\ wk[w].pc \in {"finished", "joined"} => wk[w].context = "released"

\* Two workers hold their contexts at the same time.
C18_Witness ==
    \E w \in DOMAIN wk, v \in DOMAIN wk :
        w # v /\ wk[w].context = "held" /\ wk[v].context = "held"

\* C19: LoadDiskCache has returned only when every worker it spawned has
\* finished and been joined; then no worker holds the mutex or a context.
C19_ReturnAfterJoin ==
    ld.pc = "done" =>
        /\ \A w \in DOMAIN wk : wk[w].pc = "joined" /\ wk[w].context = "released"
        /\ ld.mutex = <<>>

\* A returned warm-up whose workers rebuilt entries on two threads.
C19_Witness ==
    /\ ld.pc = "done"
    /\ Cardinality(DOMAIN wk) >= 2
    /\ Cardinality(hist.injected) >= 2

\* The number of entries of worker w.
RangeSize(w) == wk[w].end - wk[w].begin

\* C20 as stated: the numbers of entries of any two workers differ by at
\* most one.
C20_EvenPartition ==
    \A w \in DOMAIN wk, v \in DOMAIN wk : RangeSize(w) - RangeSize(v) <= 1

\* C20 amended: the ranges are contiguous and cover the rebuild list; every
\* worker but the last gets floor(size / N) entries and the last gets those
\* plus the remainder size mod N, so two workers differ by at most N - 1.
C20_RemainderToLast ==
    wk # <<>> =>
        LET n == Cardinality(DOMAIN wk)
            size == ld.load_raws_size
        IN /\ n = RebuildWorkers
           /\ DOMAIN wk = 0..(n - 1)
           /\ wk[0].begin = 0
           /\ wk[n - 1].end = size
           /\ \A w \in 0..(n - 2) : wk[w].end = wk[w + 1].begin
           /\ \A w \in 0..(n - 2) : RangeSize(w) = size \div n
           /\ RangeSize(n - 1) = (size \div n) + (size % n)
           /\ \A w \in DOMAIN wk, v \in DOMAIN wk : RangeSize(w) - RangeSize(v) <= n - 1

\* Three workers over two entries: the last worker has both.
C20_Witness ==
    /\ Cardinality(DOMAIN wk) = 3
    /\ ld.load_raws_size = 2
    /\ RangeSize(2) = 2

(***************************************************************************)
(* Runtime: linked programs, bindings, the caches' stages.                 *)
(***************************************************************************)
\* C21: on a non-separable platform, over any sequence of stage selections
\* and ApplyTo calls, a program is linked, and dumped, only by the first
\* ApplyTo of a combination of the three stage hashes; a later ApplyTo of
\* the combination links nothing and dumps nothing.
C21_LinkedOncePerCombination ==
    ~env.separable =>
        \A c \in DOMAIN rt.links : rt.links[c] <= 1 /\ rt.file_dumps[c] <= 1

\* C22 (as stated): every linked stage or program object has received its
\* uniform-block bindings exactly once and its sampler/image bindings
\* exactly once, whatever was done with it afterwards (cache hits,
\* re-injections, draws that reuse it).
C22_BothBindingsOncePerObject ==
    \A h \in DOMAIN rt.bound \ {0} :
        rt.bound[h] = [blocks |-> 1, samplers |-> 1]

\* C22 (amended): every linked object has received its uniform-block
\* bindings exactly once and its sampler/image bindings at most once; the
\* fragment stages held by the cache of a separable manager and the linked
\* programs of a non-separable one have received the sampler/image bindings
\* exactly once; a separable vertex stage built from source has received
\* none.
C22_BlocksOnceSamplersByKind ==
    /\ \A h \in DOMAIN rt.bound \ {0} :
          rt.bound[h].blocks = 1 /\ rt.bound[h].samplers <= 1
    /\ env.separable =>
          \A h \in Range(fragment_shaders) \ {0} :
              Bindings(rt.bound, h) = [blocks |-> 1, samplers |-> 1]
    /\ \A h \in Range(program_cache) \ {0} :
          Bindings(rt.bound, h) = [blocks |-> 1, samplers |-> 1]
    /\ (/\ env.separable
        /\ rt.last.op = "UseProgrammableVertexShader"
        /\ rt.last.new_source
        /\ rt.last.handle # 0)
           => Bindings(rt.bound, rt.last.handle) = [blocks |-> 1, samplers |-> 0]

\* A warmed-up separable manager whose fragment lookup hit a stage injected
\* by the warm-up, while the selected vertex stage was built from source in
\* this session.
C22_Witness ==
    /\ env.separable
    /\ rt.persisted # {}
    /\ rt.last.op = "UseFragmentShader"
    /\ ~rt.last.new_source
    /\ rt.last.handle # 0
    /\ Bindings(rt.bound, rt.last.handle) = [blocks |-> 1, samplers |-> 1]
    /\ current.vs \in Range(vertex_shaders.shader_cache) \ {0}
    /\ Bindings(rt.bound, current.vs) = [blocks |-> 1, samplers |-> 0]

\* C23: after any sequence of Get and Inject calls, exactly one stage was
\* ever installed for each key the single-level cache holds and for each
\* source text the double-level cache holds (by the one Get that compiled it
\* or the one Inject that seeded it, never replaced afterwards), none for a
\* key or source the cache does not hold, and every non-null key entry of the
\* double-level cache refers to a source text its source-text map stores.
C23_OneStagePerKeyOrSource ==
    /\ \A k \in FSKeys :
          calls.fs_compile[k] + (IF k \in calls.fs_seeded THEN 1 ELSE 0)
              = (IF k \in DOMAIN fragment_shaders THEN 1 ELSE 0)
    /\ \A c \in VSSources :
          calls.vs_compile[c] + (IF c \in calls.vs_seeded THEN 1 ELSE 0)
              = (IF c \in DOMAIN vertex_shaders.shader_cache THEN 1 ELSE 0)
    /\ \A k \in DOMAIN vertex_shaders.shader_map :
          vertex_shaders.shader_map[k] # NullStage =>
              vertex_shaders.shader_map[k][1] \in DOMAIN vertex_shaders.shader_cache

\* Both caches hold stages; two vertex keys refer to one stored source, a
\* key was re-pointed by Inject, and the fragment key was both injected and
\* looked up.
C23_Witness ==
    /\ DOMAIN fragment_shaders # {}
    /\ calls.fs_seeded # {}
    /\ \E k \in DOMAIN fragment_shaders : calls.fs_gets[k] > 0
    /\ calls.vs_injected # {}
    /\ Cardinality(DOMAIN vertex_shaders.shader_cache) = 2
    /\ \E a \in DOMAIN vertex_shaders.shader_map, b \in DOMAIN vertex_shaders.shader_map :
          /\ a # b
          /\ vertex_shaders.shader_map[a] # NullStage
          /\ vertex_shaders.shader_map[a] = vertex_shaders.shader_map[b]
          /\ calls.vs_compile[vertex_shaders.shader_map[a][1]] = 1

\* C26 (as stated): whatever the cache holds when Inject(key, program) is
\* called, a Get for that key right after it returns the handle of the
\* injected program, reports no new source, and runs neither the generator
\* nor the compiler.
C26_InjectPreSeedsAlways ==
    [][/\ \A k \in FSKeys \cap {ret'.key}, built \in BOOLEAN :
             InjectFS(k, built) =>
                 LET g == ShaderCacheGet(fragment_shaders', k, GenerateFragmentShader(k), 0)
                 IN /\ g.handle = StageCreate(NewHandle(LiveHandles), built)
                    /\ g.result = NoResult
                    /\ ~g.generated /\ ~g.compiled
       /\ \A k \in VSKeys \cap {ret'.key}, d \in VSSources, built \in BOOLEAN :
             InjectVS(k, d, built) =>
                 LET g == ShaderDoubleCacheGet(vertex_shaders', k,
                                               GenerateVertexShader(SetupOf(k), k), 0)
                 IN /\ g.handle = StageCreate(NewHandle(LiveHandles), built)
                    /\ g.result = NoResult
                    /\ ~g.generated /\ ~g.compiled]_vars

\* C26 (amended): a Get right after Inject(key, program) reports no new
\* source and runs neither the generator nor the compiler; it returns the
\* handle of the injected program when the key (single-level) or the source
\* text (double-level) was absent, and the handle of the stage the cache
\* already held for that key or source text when it was present.
C26_InjectKeepsExisting ==
    [][/\ \A k \in FSKeys \cap {ret'.key}, built \in BOOLEAN :
             InjectFS(k, built) =>
                 LET g == ShaderCacheGet(fragment_shaders', k, GenerateFragmentShader(k), 0)
                 IN /\ g.handle = IF k \in DOMAIN fragment_shaders
                                  THEN fragment_shaders[k]
                                  ELSE StageCreate(NewHandle(LiveHandles), built)
                    /\ g.result = NoResult
                    /\ ~g.generated /\ ~g.compiled
       /\ \A k \in VSKeys \cap {ret'.key}, d \in VSSources, built \in BOOLEAN :
             InjectVS(k, d, built) =>
                 LET g == ShaderDoubleCacheGet(vertex_shaders', k,
                                               GenerateVertexShader(SetupOf(k), k), 0)
                 IN /\ g.handle = IF d \in DOMAIN vertex_shaders.shader_cache
                                  THEN vertex_shaders.shader_cache[d]
                                  ELSE StageCreate(NewHandle(LiveHandles), built)
                    /\ g.result = NoResult
                    /\ ~g.generated /\ ~g.compiled]_vars

\* The last call injected a fragment key whose stage the cache already held
\* from a Get, and a vertex key was injected onto a source text whose stage
\* the cache already held from a Get.
C26_Witness ==
    /\ ret.op = "InjectFS"
    /\ ret.key \notin calls.fs_seeded
    /\ fragment_shaders[ret.key] # 0
    /\ \E k \in calls.vs_injected :
          /\ vertex_shaders.shader_map[k][1] \notin calls.vs_seeded
          /\ vertex_shaders.shader_cache[vertex_shaders.shader_map[k][1]] # 0

\* C24: on a warm-up that is not cancelled, once the dump phase has reached
\* a Raw entry whose stage kind is neither vertex nor fragment (its dump was
\* loaded and no stage kind matched), the warm-up is aborted: no entry is
\* rebuilt from source afterwards, and the whole store has been invalidated
\* when the warm-up has returned.
C24_UnknownKindAborts ==
    (/\ ~env.stop_loading
     /\ \E i \in 1..Len(ld.raws) :
           /\ ld.raws[i].program_type \notin {"VS", "FS"}
           /\ i \in hist.examined
           /\ ld.raws[i].unique_identifier \in {l.unique_identifier : l \in hist.loaded}
           /\ ld.raws[i].unique_identifier \notin hist.rejected)
        => /\ hist.rebuilt = {}
           /\ ld.pc = "done" => "all" \in hist.invalidated

\* C25: on a separable platform, after a warm-up that loaded or rebuilt
\* every entry without a failure, a runtime lookup for a hardware state whose
\* stage an earlier session persisted (and the store still holds) is a hit:
\* it finds the stage under the key the lookup builds, runs neither the
\* generator nor the compiler and reports no new source.
C25_RoundTripHit ==
    (/\ env.separable
     /\ ld.pc = "done"
     /\ hist.rejected = {} /\ hist.unsupported = {} /\ ~hist.rebuild_failed
     /\ rt.last.op \in {"UseProgrammableVertexShader", "UseFragmentShader"}
     /\ rt.last.input \in rt.persisted)
        => rt.last.hit /\ ~rt.last.new_source

\* C27 (as stated): a UseProgrammableVertexShader or UseFragmentShader call
\* whose lookup reported new source has appended exactly one Raw record and
\* one Decompiled record to the store, both under the identifier computed
\* from the registers (and the program code followed by the swizzle data for
\* the vertex stage); a call whose lookup reported no new source has left the
\* store as it was.
C27_NewSourceAppendsOnePair ==
    rt.last.op \in {"UseProgrammableVertexShader", "UseFragmentShader"} =>
        IF rt.last.new_source
        THEN /\ Len(disk.transferable) = Len(rt.last.before.transferable) + 1
             /\ disk.transferable[Len(disk.transferable)].unique_identifier
                    = rt.last.unique_identifier
             /\ DOMAIN disk.decompiled
                    = DOMAIN rt.last.before.decompiled \cup {rt.last.unique_identifier}
             /\ rt.last.unique_identifier \notin DOMAIN rt.last.before.decompiled
        ELSE disk = rt.last.before

\* C27 (amended): a UseFragmentShader call whose lookup reported new source,
\* and a UseProgrammableVertexShader call whose lookup reported new source
\* and returned a handle other than 0, leave the store holding a Raw record
\* and a Decompiled record under the identifier computed from the registers
\* (and the program code followed by the swizzle data for the vertex stage),
\* having appended at most that one Raw record and changed no other record;
\* every other call leaves the store as it was.
C27_SavedUnlessHandleZero ==
    rt.last.op \in {"UseProgrammableVertexShader", "UseFragmentShader"} =>
        IF /\ rt.last.new_source
           /\ rt.last.op = "UseProgrammableVertexShader" => rt.last.handle # 0
        THEN /\ \E i \in 1..Len(disk.transferable) :
                   /\ disk.transferable[i].unique_identifier = rt.last.unique_identifier
                   /\ rt.last.unique_identifier
                          = GetUniqueIdentifier(disk.transferable[i].regs,
                                                disk.transferable[i].program_code)
             /\ Len(disk.transferable) <= Len(rt.last.before.transferable) + 1
             /\ \A i \in 1..Len(rt.last.before.transferable) :
                   disk.transferable[i] = rt.last.before.transferable[i]
             /\ DOMAIN disk.decompiled
                    = DOMAIN rt.last.before.decompiled \cup {rt.last.unique_identifier}
             /\ \A u \in DOMAIN rt.last.before.decompiled :
                   disk.decompiled[u] = rt.last.before.decompiled[u]
             /\ disk.dumps = rt.last.before.dumps
        ELSE disk = rt.last.before

\* A vertex lookup reported new source with handle 0 on a store that
\* already holds an entry saved by an earlier call.
C27_Witness ==
    /\ rt.last.op = "UseProgrammableVertexShader"
    /\ rt.last.new_source
    /\ rt.last.handle = 0
    /\ disk.transferable # <<>>
    /\ \E k \in DOMAIN fragment_shaders : fragment_shaders[k] # 0

\* C28: the ranges [begin, end) handed to the rebuild workers are pairwise
\* disjoint and their union is exactly [0, load_raws_size), whatever the
\* number of entries and of workers; a worker's index never leaves its
\* range, and when a rebuild that was neither cancelled nor failed has
\* returned, every worker has walked its whole range and every entry of the
\* rebuild list has been rebuilt.
C28_RangesPartition ==
    wk # <<>> =>
        /\ \A w \in DOMAIN wk, v \in DOMAIN wk :
              w # v => (wk[w].begin..(wk[w].end - 1)) \cap (wk[v].begin..(wk[v].end - 1)) = {}
        /\ UNION {wk[w].begin..(wk[w].end - 1) : w \in DOMAIN wk}
              = 0..(ld.load_raws_size - 1)
        /\ \A w \in DOMAIN wk : wk[w].begin <= wk[w].i /\ wk[w].i <= wk[w].end
        /\ (ld.pc = "done" /\ ~env.stop_loading /\ ~ld.compilation_failed) =>
              /\ \A w \in DOMAIN wk : wk[w].i = wk[w].end
              /\ hist.rebuilt = {RawsIndex(j) : j \in 0..(ld.load_raws_size - 1)}

\* Three workers were handed two entries (fewer entries than workers), the
\* rebuild has returned without cancellation or failure and both entries
\* were rebuilt.
C28_Witness ==
    /\ Cardinality(DOMAIN wk) = 3
    /\ ld.load_raws_size = 2
    /\ ld.pc = "done"
    /\ ~env.stop_loading /\ ~ld.compilation_failed
    /\ Cardinality(hist.rebuilt) = 2

\* C29: every Raw record the runtime calls saved, as the store holds it,
\* carries the identifier that GetUniqueIdentifier yields for its own
\* registers and program code; so whenever a warm-up recomputes the
\* identifier of an entry the comparison succeeds and the store is not
\* invalidated for a mismatch.
C29_StoredIdentifierRecomputes ==
    /\ \A i \in 1..Len(disk.transferable) :
          disk.transferable[i].unique_identifier
              = GetUniqueIdentifier(disk.transferable[i].regs,
                                    disk.transferable[i].program_code)
    /\ (ld.pc = "precompiled_shader" /\ ld.i <= Len(ld.raws)) =>
          ld.raws[ld.i].unique_identifier
              = GetUniqueIdentifier(ld.raws[ld.i].regs, ld.raws[ld.i].program_code)

\* A warm-up in a later session has recomputed the identifiers of a vertex
\* and of a fragment entry that runtime calls saved, and returned with the
\* store intact.
C29_Witness ==
    /\ ld.pc = "done"
    /\ Cardinality(hist.examined) >= 2
    /\ \E in \in rt.persisted : in[1] = "VS"
    /\ \E in \in rt.persisted : in[1] = "FS"
    /\ Len(disk.transferable) >= 2
    /\ hist.invalidated = {}

\* C30: in the rebuild phase, a handle that was passed to SaveDump belongs
\* to a stage that one of the in-memory caches holds at that moment; the
\* handle of a freshly built stage that Inject dropped is never dumped.
C30_DumpedHandleOwned ==
    \A w \in DOMAIN wk :
        wk[w].pc = "saved" =>
            wk[w].handle \in Range(fragment_shaders) \cup Range(vertex_shaders.shader_cache)

(***************************************************************************)
(* Failure of the rebuild, failed builds at runtime, termination.          *)
(***************************************************************************)
\* A rebuild from source has just failed: the stage of the entry was built
\* and injected and its handle is 0.
BuildFailed == \E w \in DOMAIN wk : wk[w].pc = "injected" /\ wk[w].handle = 0

\* The store holds no Raw, no Decompiled and no Dump record.
StoreEmpty == disk = [transferable |-> <<>>, decompiled |-> <<>>, dumps |-> <<>>]

\* C31: once a rebuild from source has failed (a build left handle 0 or an
\* entry had an unknown stage kind), no worker starts a further entry; a
\* build that left handle 0 is followed by the return of the warm-up with
\* the whole store invalidated; and when the warm-up has returned after a
\* failure the store holds no Raw, no Decompiled and no Dump record.
C31_RebuildFailureEmptiesStore ==
    /\ [][(ld.pc = "join" /\ ld.compilation_failed) => hist'.rebuilt = hist.rebuilt]_vars
    /\ []((ld.pc = "done" /\ hist.rebuild_failed) =>
             "all" \in hist.invalidated /\ StoreEmpty)
    /\ BuildFailed ~> (ld.pc = "done" /\ "all" \in hist.invalidated /\ StoreEmpty)

\* C32: over any sequence of calls on the single-level cache, the generator
\* and the compiler have run at most once for each key; a key whose first Get
\* left the sentinel handle 0 is still cached with handle 0, and a later Get
\* of it has returned handle 0 and no source.
C32_FailedBuildStaysCached ==
    \A k \in FSKeys :
        /\ calls.fs_gen[k] <= 1
        /\ calls.fs_compile[k] <= 1
        /\ (first.fs[k] # <<>> /\ first.fs[k][1].handle = 0) =>
              /\ k \in DOMAIN fragment_shaders
              /\ fragment_shaders[k] = 0
              /\ (calls.fs_gets[k] >= 2 /\ ret.op = "GetFS" /\ ret.key = k) =>
                    ret.handle = 0 /\ ret.result = NoResult

\* The last call was a later Get of a key whose build by the first Get had
\* failed.
C32_Witness ==
    \E k \in FSKeys :
        /\ first.fs[k] # <<>>
        /\ first.fs[k][1].handle = 0
        /\ first.fs[k][1].result # NoResult
        /\ calls.fs_gets[k] >= 2
        /\ ret.op = "GetFS" /\ ret.key = k

\* C33: a UseProgrammableVertexShader call whose lookup yields handle 0
\* returns false and leaves the selected vertex handle and hash, the other
\* selected stages and the store as they were; a call whose lookup yields
\* another handle returns true and sets the selected vertex handle to it and
\* the vertex hash to the hash of the config, leaving the other selected
\* stages as they were.
C33_VertexSelectionFrame ==
    [][(rt'.last.op = "UseProgrammableVertexShader" /\ rt'.uses = rt.uses + 1) =>
          /\ rt'.last.handle = DoubleCacheHit(vertex_shaders', rt'.last.key).handle
          /\ IF rt'.last.handle = 0
             THEN /\ ~rt'.last.returned
                  /\ current' = current
                  /\ disk' = disk
             ELSE /\ rt'.last.returned
                  /\ current' = [current EXCEPT !.vs = rt'.last.handle,
                                                !.vs_hash = VSConfigHash(rt'.last.key)]]_vars

\* The last call was a vertex selection that reported new source, yielded
\* handle 0 and returned false, on a manager that had a vertex and a
\* fragment stage selected and entries in its store.
C33_Witness ==
    /\ rt.last.op = "UseProgrammableVertexShader"
    /\ rt.last.handle = 0
    /\ rt.last.new_source
    /\ ~rt.last.returned
    /\ current.vs # 0
    /\ current.fs # 0
    /\ disk.transferable # <<>>

\* C34: the warm-up terminates: LoadDiskCache eventually returns, with every
\* worker it started joined and its rendering context released.
C34_WarmupTerminates ==
    <>(/\ ld.pc = "done"
       /\ \A w \in DOMAIN wk : wk[w].pc = "joined" /\ wk[w].context = "released")

====
